---- MODULE Spec2Model ----
(***************************************************************************)
(* Model of code_recap/generate_blog_post.py: the two-stage pipeline that   *)
(* turns git history into a research document and then into a blog post.   *)
(*                                                                         *)
(* Text is a sequence of one-character strings.  A few fixed literals of   *)
(* the program that no pattern of the program looks inside (marker words,  *)
(* headings) are written as one element.                                   *)
(* A path is a sequence of directory names below the root, each name a     *)
(* text; its basename is its last element.                                 *)
(***************************************************************************)
EXTENDS Integers, Sequences, FiniteSets, TLC

VARIABLES
    \* the version-control backend and the file system under the root
    submodules,     \* discover_all_submodules: path -> list of paths
    history,        \* get_commits_with_diffs: path -> list of commit numbers
    objects,        \* the commits "git show" finds in a path: path -> set of numbers
    diff_text,      \* the patch "git show" prints for a commit: number -> text
    dirs,           \* the names of the directories directly under the root
    top_repos,      \* discover_top_level_repos(root): list of paths
    cwd_parent,     \* os.path.dirname(os.getcwd())
    \* gather_commits_for_period
    repos,          \* its argument: the list of repository paths
    all_commits,    \* its result
    hpc,            \* "call" before the function ran, "done" after
    \* get_commit_by_sha
    max_diff_lines, \* its argument
    commit_out,     \* its result
    dpc,            \* "call" before the function ran, "done" after
    \* extract_commit_shas_from_research
    content,        \* its argument: a text
    results,        \* its result: a list of <<sha, repo_name>>
    epc,            \* "call" before the function ran, "done" after
    \* format_research_metadata and parse_research_metadata
    artifact,       \* the arguments of format_research_metadata, or None
    meta_text,      \* the text given to parse_research_metadata
    decoded,        \* the result of parse_research_metadata
    cpc,            \* "encode", then "decode", then "done"
    \* retrieve_referenced_commits
    all_refs,       \* metadata.commits + additional_refs: list of <<sha, repo>>
    meta_root,      \* metadata.root
    referenced,     \* its result: list of <<repo_name, CommitInfo>>
    rpc,            \* "call" before the function ran, "done" after
    \* find_repo_by_name
    find_root,      \* its argument root
    find_name,      \* its argument repo_name
    found,          \* its result: Path(p) or None
    fpc,            \* "call" before the function ran, "done" after
    \* the pipeline: cmd_full, then cmd_research and cmd_write
    args,           \* the command line: topic, client, author, period, root,
                    \* max_cost, dry_run, max_diff_lines
    config,         \* load_config: present, global_context, client_context,
                    \* client_repos
    llm,            \* what the model backend answers in each stage
    files,          \* the output files: path -> File(text) or None
    calls,          \* the model calls issued so far, in order
    research_output,\* cmd_full's local: the text stage 1 returned
    total_cost,     \* cmd_full's local CostTracker
    exits,          \* how each handler ended: "-", "0", "1", "raised"
    edits,          \* the runs whose research file was edited by hand
    ppc             \* the handler (or half of cmd_full) that runs next

worldVars == <<submodules, history, objects, diff_text, dirs, top_repos,
               cwd_parent>>
harvestVars == <<repos, all_commits, hpc>>
diffVars == <<max_diff_lines, commit_out, dpc>>
extractVars == <<content, results, epc>>
codecVars == <<artifact, meta_text, decoded, cpc>>
resolveVars == <<all_refs, meta_root, referenced, rpc>>
findVars == <<find_root, find_name, found, fpc>>

pipeVars == <<args, config, llm, files, calls, research_output, total_cost,
              exits, edits, ppc>>

vars == <<worldVars, harvestVars, diffVars, extractVars, codecVars,
                   resolveVars, findVars,
          pipeVars>>

-----------------------------------------------------------------------------
(* Bounds of the model.                                                    *)

\* number of distinct commits the backend knows
NumShas == 3

\* longest patch text, in characters, and largest max_diff_lines
MaxDiffLen == 5
MaxN == 3

\* longest text given to the reference extractor, in segments
MaxSegs == 4

\* most references in an artifact, and longest free text given to the
\* metadata decoder, in elements
MaxRefs == 2
MaxTextLen == 5

-----------------------------------------------------------------------------
(* Generic helpers.                                                        *)

\* Python's None, where the other values are records
None == [tag |-> "None"]

Last(s) == s[Len(s)]

\* os.path.basename of a path
basename(path) == Last(path)

\* all sequences over S of length at most n
SeqsUpTo(S, n) == UNION {[1..k -> S] : k \in 0..n}

\* the sequences of SeqsUpTo(S, n) without a repeated element
DistinctSeqsUpTo(S, n) ==
    {s \in SeqsUpTo(S, n) : \A i, j \in 1..Len(s) : s[i] = s[j] => i = j}

\* the elements of a sequence
Range(s) == {s[i] : i \in 1..Len(s)}

-----------------------------------------------------------------------------
(* Commits.  A full hash is 40 hex digits in the program; the model keeps  *)
(* nine of them, the seventh telling the commits apart.                    *)

DigitChar == <<"0", "1", "2", "3", "4", "5", "6", "7", "8", "9">>

FullSha(n) == <<"a", "b", "c", "1", "2", "3", DigitChar[n + 1], "9", "f">>

\* CommitInfo as the backend returns it
CommitInfo(n) == [sha |-> FullSha(n), author_date |-> n]

-----------------------------------------------------------------------------
(* The repositories under the root.                                        *)

RepoA == <<<<"A">>>>
RepoB == <<<<"B">>>>
SubAx == <<<<"A">>, <<"x">>>>
SubBy == <<<<"B">>, <<"y">>>>

\* the directory the repositories live in, and a directory that holds none
RootDir == <<"/", "r">>
OtherRoot == <<"/", "o">>

TopLevel == {RepoA, RepoB}
AllPaths == {RepoA, RepoB, SubAx, SubBy}

\* the submodule a top-level repository may have
SubOf(r) == IF r = RepoA THEN SubAx ELSE SubBy

\* get_commits_with_diffs(repo_path, ...): the backend's answer for a path
get_commits_with_diffs(repo_path) ==
    [i \in 1..Len(history[repo_path]) |-> CommitInfo(history[repo_path][i])]

discover_all_submodules(repo_path) == submodules[repo_path]

-----------------------------------------------------------------------------
(* Text helpers: str.split, str.join, the decimal form of a number.        *)

NL == "\n"

RECURSIVE SplitFrom(_, _, _)
\* the pieces of text[i..] between separators, cur being the piece begun
SplitFrom(text, i, cur) ==
    IF i > Len(text) THEN <<cur>>
    ELSE IF text[i] = NL THEN <<cur>> \o SplitFrom(text, i + 1, <<>>)
    ELSE SplitFrom(text, i + 1, Append(cur, text[i]))

\* text.split("\n"): always at least one piece
SplitLines(text) == SplitFrom(text, 1, <<>>)

RECURSIVE JoinLines(_)
\* "\n".join(lines)
JoinLines(lines) ==
    IF lines = <<>> THEN <<>>
    ELSE IF Len(lines) = 1 THEN lines[1]
    ELSE lines[1] \o <<NL>> \o JoinLines(Tail(lines))

RECURSIVE Decimal(_)
\* str(k) for k >= 0
Decimal(k) ==
    IF k < 10 THEN <<DigitChar[k + 1]>>
    ELSE Decimal(k \div 10) \o <<DigitChar[(k % 10) + 1]>>

\* s[:n] for n >= 0
Take(s, n) == SubSeq(s, 1, IF n < Len(s) THEN n ELSE Len(s))

\* whether p is a leading part of s
IsPrefix(p, s) == Len(p) <= Len(s) /\ SubSeq(s, 1, Len(p)) = p

-----------------------------------------------------------------------------
(* get_commit_by_sha.                                                      *)

\* run_git(repo_path, ["show", ..., sha]): the commits of the path whose
\* hash begins with sha; git succeeds (code 0) when there is exactly one
run_git_show(repo_path, sha) ==
    IF repo_path \in DOMAIN objects
    THEN {n \in objects[repo_path] : IsPrefix(sha, FullSha(n))}
    ELSE {}

\* the line appended to a shortened patch (line 293, without its "\n")
TruncationLine(k) == <<"... (truncated, ">> \o Decimal(k) \o <<" more lines)">>

\* a truncation that keeps the first lines but says nothing about the rest
diff_content_silent(diff_out, n) ==
    LET diff_lines == SplitLines(diff_out)
    IN IF Len(diff_lines) > n THEN JoinLines(Take(diff_lines, n)) ELSE diff_out

\* lines 290-295
diff_content(diff_out, n) ==
    LET diff_lines == SplitLines(diff_out)
    IN IF Len(diff_lines) > n
       THEN JoinLines(Take(diff_lines, n))
                \o <<NL>> \o TruncationLine(Len(diff_lines) - n)
       ELSE diff_out

get_commit_by_sha(repo_path, sha, n) ==
    LET out == run_git_show(repo_path, sha)
    IN IF Cardinality(out) # 1 THEN None
       ELSE LET c == CHOOSE k \in out : TRUE
            IN [sha |-> FullSha(c), author_date |-> c,
                diff |-> diff_content(diff_text[c], n)]

-----------------------------------------------------------------------------
(* extract_commit_shas_from_research: re.findall of the pattern            *)
(*     TICK([a-f0-9]{7,8})TICK(?:\s*\(([^)]+)\))?    (TICK: a backtick)     *)

\* the backtick character (a TLA+ string cannot hold one)
Tick == "tick"

\* [a-f0-9]
HexChars == {"0", "1", "2", "3", "4", "5", "6", "7", "8", "9",
             "a", "b", "c", "d", "e", "f"}

\* \s, and what str.strip removes
Whitespace == {" ", NL, "\t"}

\* the character at position i, "" past the end of the text
At(text, i) == IF i >= 1 /\ i <= Len(text) THEN text[i] ELSE ""

\* a backtick, k hex digits and a backtick are at i
HexTokenAt(text, i, k) ==
    /\ At(text, i) = Tick
    /\ \A j \in (i + 1)..(i + k) : At(text, j) \in HexChars
    /\ At(text, i + k + 1) = Tick

RECURSIVE SkipWhitespace(_, _)
\* the position after the longest run of whitespace that begins at i
SkipWhitespace(text, i) ==
    IF At(text, i) \in Whitespace THEN SkipWhitespace(text, i + 1) ELSE i

RECURSIVE FindChar(_, _, _)
\* the first position >= i holding character ch, 0 when there is none
FindChar(text, i, ch) ==
    IF i > Len(text) THEN 0
    ELSE IF text[i] = ch THEN i
    ELSE FindChar(text, i + 1, ch)

RECURSIVE LStrip(_)
LStrip(t) == IF t # <<>> /\ Head(t) \in Whitespace THEN LStrip(Tail(t)) ELSE t

RECURSIVE RStrip(_)
RStrip(t) ==
    IF t # <<>> /\ Last(t) \in Whitespace THEN RStrip(SubSeq(t, 1, Len(t) - 1)) ELSE t

\* str.strip()
Strip(t) == RStrip(LStrip(t))

\* a pattern that takes hex tokens of any length from 6 to 9
TokenLengthLoose(text, i) ==
    IF HexTokenAt(text, i, 9) THEN 9
    ELSE IF HexTokenAt(text, i, 8) THEN 8
    ELSE IF HexTokenAt(text, i, 7) THEN 7
    ELSE IF HexTokenAt(text, i, 6) THEN 6
    ELSE 0

\* {7,8}: the length of the hex token the pattern takes at i, the longer
\* first, 0 when it takes none
TokenLength(text, i) ==
    IF HexTokenAt(text, i, 8) THEN 8
    ELSE IF HexTokenAt(text, i, 7) THEN 7
    ELSE 0

\* the optional group (?:\s*\(([^)]+)\))? tried at position i: the text of
\* group 2 and the position after the match
ParenGroupAt(text, i) ==
    LET open == SkipWhitespace(text, i)
        close == FindChar(text, open + 1, ")")
    IN IF At(text, open) = "(" /\ close > open + 1
       THEN [repo |-> SubSeq(text, open + 1, close - 1), end |-> close + 1]
       ELSE [repo |-> <<>>, end |-> i]

\* the match of the whole pattern at position i, None when there is none
MatchRefAt(text, i) ==
    LET k == TokenLength(text, i)
    IN IF k = 0 THEN None
       ELSE LET g == ParenGroupAt(text, i + k + 2)
            IN [sha |-> SubSeq(text, i + 1, i + k), repo |-> g.repo, end |-> g.end]

RECURSIVE FindAllFrom(_, _)
\* re.findall from position i on: leftmost matches that do not overlap,
\* each turned into <<sha, repo_name>> by lines 203-205
FindAllFrom(text, i) ==
    IF i > Len(text) THEN <<>>
    ELSE LET m == MatchRefAt(text, i)
         IN IF m = None THEN FindAllFrom(text, i + 1)
            ELSE <<<<m.sha, Strip(m.repo)>>>> \o FindAllFrom(text, m.end)

extract_commit_shas_from_research(text) == FindAllFrom(text, 1)

-----------------------------------------------------------------------------
(* Python and YAML values.  A str is PyStr(text); yaml.safe_load gives a   *)
(* str, an int, None, a list or a dict, or raises.                         *)

PyStr(t) == [tag |-> "str", val |-> t]
PyInt(t) == [tag |-> "int", val |-> t]
YList(items) == [tag |-> "list", val |-> items]
YMap(f) == [tag |-> "map", val |-> f]
YError == [tag |-> "error"]

EmptyMap == [k \in {} |-> None]

\* the mapping f with key k set to v (a later key replaces an earlier one)
MapPut(f, k, v) == [x \in DOMAIN f \cup {k} |-> IF x = k THEN v ELSE f[x]]

Digits == {"0", "1", "2", "3", "4", "5", "6", "7", "8", "9"}

\* characters that cannot start a plain YAML scalar in the texts modelled
ReservedStart == {"@", Tick}

-----------------------------------------------------------------------------
(* format_research_metadata.                                               *)

OpenMarker == "<!--"
MetaWord == "blog-research-meta"
CloseMarker == "-->"

\* f"{key}: {value}"
KeyLine(key, value) == <<key, ":", " ">> \o value

RECURSIVE CommitLines(_)
\* lines 242-244
CommitLines(commits) ==
    IF commits = <<>> THEN <<>>
    ELSE <<<<" ", " ", "-", " ">> \o KeyLine("sha", Head(commits)[1]),
           <<" ", " ", " ", " ">> \o KeyLine("repo", Head(commits)[2])>>
             \o CommitLines(Tail(commits))

format_research_metadata(topic, period, client, author, root, commits) ==
    JoinLines(
        <<<<OpenMarker, " ", MetaWord>>,
          KeyLine("topic", topic),
          KeyLine("period", period),
          KeyLine("client", client),
          KeyLine("author", author),
          KeyLine("root", root)>>
        \o (IF commits # <<>> THEN <<<<"commits", ":">>>> \o CommitLines(commits)
            ELSE <<>>)
        \o <<<<CloseMarker>>>>)

-----------------------------------------------------------------------------
(* yaml.safe_load, for the block documents the metadata comment can hold:  *)
(* a mapping of plain scalars, whose values may be a list of mappings or   *)
(* of scalars written as indented "- " items.                              *)

\* plain scalar resolution: empty is null, decimal digits are an int
ResolveScalar(t) ==
    IF t = <<>> THEN None
    ELSE IF Head(t) \in ReservedStart THEN YError
    ELSE IF (\A i \in 1..Len(t) : t[i] \in Digits) /\ (Len(t) = 1 \/ Head(t) # "0")
         THEN PyInt(t)
    ELSE PyStr(t)

RECURSIVE Indent(_)
\* the number of leading spaces of a line
Indent(line) ==
    IF line # <<>> /\ Head(line) = " " THEN 1 + Indent(Tail(line)) ELSE 0

IsBlank(line) == \A i \in 1..Len(line) : line[i] = " "

RECURSIVE ColonFrom(_, _)
\* the first ":" at or after i that ends the line or is followed by a
\* space (the mapping indicator), 0 when there is none
ColonFrom(line, i) ==
    IF i > Len(line) THEN 0
    ELSE IF line[i] = ":" /\ (i = Len(line) \/ line[i + 1] = " ") THEN i
    ELSE ColonFrom(line, i + 1)

\* "key: value" read from the text of a line after its indentation:
\* kind "entry" with the key and the resolved value, "scalar" when the
\* text has no mapping indicator, "error" when it cannot be read
ReadEntry(body) ==
    LET c == ColonFrom(body, 1)
        rest == IF c = 0 THEN <<>> ELSE Strip(SubSeq(body, c + 1, Len(body)))
    IN IF c = 0
       THEN [kind |-> IF ResolveScalar(Strip(body)) = YError THEN "error" ELSE "scalar",
             key |-> <<>>, value |-> ResolveScalar(Strip(body))]
       ELSE IF c = 1 \/ ColonFrom(rest, 1) # 0 \/ ResolveScalar(rest) = YError
       THEN [kind |-> "error", key |-> <<>>, value |-> YError]
       ELSE [kind |-> "entry", key |-> Strip(SubSeq(body, 1, c - 1)),
             value |-> ResolveScalar(rest)]

\* the text of a line after its n leading spaces
Dedent(line, n) == SubSeq(line, n + 1, Len(line))

\* the line begins, after its indentation, with "- "
IsItem(line) ==
    LET b == Dedent(line, Indent(line))
    IN b # <<>> /\ Head(b) = "-" /\ (Len(b) = 1 \/ b[2] = " ")

RECURSIVE ReadItems(_, _, _, _)
\* the items of a block sequence whose "- " stands at indentation d, read
\* from lines[i..]; acc is the list of items read, an item being a value
ReadItems(lines, i, d, acc) ==
    IF i > Len(lines) THEN YList(acc)
    ELSE LET line == lines[i]
             n == Indent(line)
         IN IF IsBlank(line) THEN ReadItems(lines, i + 1, d, acc)
            ELSE IF n = d /\ IsItem(line)
            THEN LET e == ReadEntry(Strip(Dedent(line, d + 1)))
                 IN IF e.kind = "error" THEN YError
                    ELSE IF e.kind = "entry"
                    THEN ReadItems(lines, i + 1, d,
                                   Append(acc, YMap(MapPut(EmptyMap, e.key, e.value))))
                    ELSE ReadItems(lines, i + 1, d, Append(acc, e.value))
            ELSE IF n = d + 2 /\ ~IsItem(line) /\ acc # <<>> /\ Last(acc).tag = "map"
            THEN LET e == ReadEntry(Dedent(line, n))
                 IN IF e.kind # "entry" THEN YError
                    ELSE ReadItems(lines, i + 1, d,
                                   [acc EXCEPT ![Len(acc)] =
                                       YMap(MapPut(Last(acc).val, e.key, e.value))])
            ELSE YError

RECURSIVE ChildEnd(_, _)
\* the last line of the block of indented or blank lines that begins at i
ChildEnd(lines, i) ==
    IF i > Len(lines) THEN i - 1
    ELSE IF IsBlank(lines[i]) \/ Indent(lines[i]) > 0 THEN ChildEnd(lines, i + 1)
    ELSE i - 1

RECURSIVE FirstContent(_, _)
\* the first line at or after i that is not blank, 0 when there is none
FirstContent(lines, i) ==
    IF i > Len(lines) THEN 0
    ELSE IF IsBlank(lines[i]) THEN FirstContent(lines, i + 1)
    ELSE i

RECURSIVE ReadMapping(_, _, _)
\* the top-level mapping read from lines[i..], m being the entries read
ReadMapping(lines, i, m) ==
    IF i > Len(lines) THEN YMap(m)
    ELSE LET line == lines[i]
         IN IF IsBlank(line) THEN ReadMapping(lines, i + 1, m)
            ELSE IF Indent(line) # 0 THEN YError
            ELSE LET e == ReadEntry(line)
                     last == ChildEnd(lines, i + 1)
                     kids == SubSeq(lines, i + 1, last)
                     first == FirstContent(kids, 1)
                 IN IF e.kind # "entry" THEN YError
                    ELSE IF first = 0
                    THEN ReadMapping(lines, last + 1, MapPut(m, e.key, e.value))
                    ELSE IF e.value # None \/ ~IsItem(kids[first]) THEN YError
                    ELSE LET items == ReadItems(kids, first, Indent(kids[first]), <<>>)
                         IN IF items = YError THEN YError
                            ELSE ReadMapping(lines, last + 1, MapPut(m, e.key, items))

\* yaml.safe_load(text): a document without content is None, a single
\* plain scalar is that scalar, lines of "key: value" are a dict
yaml_safe_load(text) ==
    LET lines == SplitLines(text)
        first == FirstContent(lines, 1)
    IN IF first = 0 THEN None
       ELSE IF Len(lines) = first /\ Indent(lines[first]) = 0
               /\ ReadEntry(lines[first]).kind = "scalar"
       THEN ReadEntry(lines[first]).value
       ELSE ReadMapping(lines, first, EmptyMap)

-----------------------------------------------------------------------------
(* parse_research_metadata.                                                *)

\* the places after position j where "\n-->" begins
CloseAfter(text, j) ==
    {c \in (j + 1)..Len(text) : text[c] = NL /\ At(text, c + 1) = CloseMarker}

\* the pattern <!--\s*blog-research-meta\s*\n(.*?)\n--> tried at position
\* i: the text of group 1, None when the pattern does not match there.
\* \s* is greedy, so the "\n" before the group is the last newline of the
\* whitespace after the marker word that still leaves a "\n-->" behind it;
\* .*? is lazy, so the group ends at the first "\n-->".
MatchBlockAt(text, i) ==
    LET j == SkipWhitespace(text, i + 1)
        e == SkipWhitespace(text, j + 1)
        starts == {n \in (j + 1)..(e - 1) : text[n] = NL /\ CloseAfter(text, n) # {}}
    IN IF At(text, i) # OpenMarker \/ At(text, j) # MetaWord \/ starts = {}
       THEN None
       ELSE LET n == CHOOSE x \in starts : \A y \in starts : y <= x
                c == CHOOSE x \in CloseAfter(text, n) :
                         \A y \in CloseAfter(text, n) : x <= y
            IN PyStr(SubSeq(text, n + 1, c - 1))

RECURSIVE SearchBlock(_, _)
\* re.search(pattern, content, re.DOTALL): the leftmost match
SearchBlock(text, i) ==
    IF i > Len(text) THEN None
    ELSE IF MatchBlockAt(text, i) # None THEN MatchBlockAt(text, i)
    ELSE SearchBlock(text, i + 1)

\* bool(value)
Truthy(v) ==
    CASE v.tag = "None" -> FALSE
      [] v.tag = "str" -> v.val # <<>>
      [] v.tag = "int" -> v.val # <<"0">>
      [] v.tag = "list" -> v.val # <<>>
      [] v.tag = "map" -> DOMAIN v.val # {}
      [] OTHER -> TRUE

\* data.get(key, "")
DictGet(data, key) ==
    IF <<key>> \in DOMAIN data.val THEN data.val[<<key>>] ELSE PyStr(<<>>)

RECURSIVE CommitPairs(_)
\* lines 169-171, over the items of a list
CommitPairs(items) ==
    IF items = <<>> THEN <<>>
    ELSE LET c == Head(items)
         IN (IF c.tag = "map" /\ <<"sha">> \in DOMAIN c.val /\ <<"repo">> \in DOMAIN c.val
             THEN <<<<c.val[<<"sha">>], c.val[<<"repo">>]>>>>
             ELSE <<>>) \o CommitPairs(Tail(items))

ResearchMetadata(topic, period, client, author, root, commits) ==
    [tag |-> "ResearchMetadata", topic |-> topic, period |-> period,
     client |-> client, author |-> author, root |-> root, commits |-> commits]

\* lines 162-183 for the value yaml.safe_load returned.  An exception in
\* the try block (a YAML error, data that is no dict, a commits value that
\* cannot be iterated) is caught and gives None.
MetadataFromData(data) ==
    IF data = YError \/ ~Truthy(data) \/ data.tag # "map" THEN None
    ELSE LET listed == <<"commits">> \in DOMAIN data.val
                          /\ Truthy(data.val[<<"commits">>])
             cs == IF listed THEN data.val[<<"commits">>] ELSE YList(<<>>)
         IN IF cs.tag = "int" THEN None
            ELSE ResearchMetadata(
                     DictGet(data, "topic"), DictGet(data, "period"),
                     DictGet(data, "client"), DictGet(data, "author"),
                     DictGet(data, "root"),
                     IF cs.tag = "list" THEN CommitPairs(cs.val) ELSE <<>>)

\* a decoder that answers a text without a block with the default artifact
parse_research_metadata_default(text) ==
    LET match == SearchBlock(text, 1)
    IN IF match = None
       THEN ResearchMetadata(PyStr(<<>>), PyStr(<<>>), PyStr(<<>>), PyStr(<<>>),
                             PyStr(<<>>), <<>>)
       ELSE MetadataFromData(yaml_safe_load(match.val))

parse_research_metadata(text) ==
    LET match == SearchBlock(text, 1)
    IN IF match = None THEN None
       ELSE MetadataFromData(yaml_safe_load(match.val))

-----------------------------------------------------------------------------
(* gather_commits_for_period.  The accumulator is the pair of the          *)
(* function's locals all_commits and seen_shas.                            *)

RECURSIVE AddCommitsNoDedup(_, _, _)
\* a harvest that never looks at the hashes it has seen
AddCommitsNoDedup(name, commits, acc) ==
    IF commits = <<>> THEN acc
    ELSE AddCommitsNoDedup(name, Tail(commits),
                           [all_commits |-> Append(acc.all_commits, <<name, Head(commits)>>),
                            seen_shas |-> acc.seen_shas \cup {Head(commits).sha}])

RECURSIVE AddCommits(_, _, _)
\* the loops "for c in commits" (lines 415-418 and 426-429)
AddCommits(name, commits, acc) ==
    IF commits = <<>> THEN acc
    ELSE LET c == Head(commits)
             nxt == IF c.sha \notin acc.seen_shas
                    THEN [all_commits |-> Append(acc.all_commits, <<name, c>>),
                          seen_shas |-> acc.seen_shas \cup {c.sha}]
                    ELSE acc
         IN AddCommits(name, Tail(commits), nxt)

RECURSIVE GatherSubs(_, _)
\* the loop "for sub_path in discover_all_submodules(repo_path)" (421-429)
GatherSubs(subs, acc) ==
    IF subs = <<>> THEN acc
    ELSE LET sub_path == Head(subs)
             sub_name == basename(sub_path)
             sub_commits == get_commits_with_diffs(sub_path)
         IN GatherSubs(Tail(subs), AddCommits(sub_name, sub_commits, acc))

RECURSIVE GatherReposSubsFirst(_, _)
\* a harvest that asks the submodules of a repository before the repository
GatherReposSubsFirst(rs, acc) ==
    IF rs = <<>> THEN acc
    ELSE GatherReposSubsFirst(
             Tail(rs),
             AddCommits(basename(Head(rs)), get_commits_with_diffs(Head(rs)),
                        GatherSubs(discover_all_submodules(Head(rs)), acc)))

RECURSIVE GatherRepos(_, _)
\* the loop "for repo_path in repos" (410-429)
GatherRepos(rs, acc) ==
    IF rs = <<>> THEN acc
    ELSE LET repo_path == Head(rs)
             repo_name == basename(repo_path)
             commits == get_commits_with_diffs(repo_path)
             own == AddCommits(repo_name, commits, acc)
         IN GatherRepos(Tail(rs),
                        GatherSubs(discover_all_submodules(repo_path), own))

gather_commits_for_period(rs) ==
    GatherRepos(rs, [all_commits |-> <<>>, seen_shas |-> {}]).all_commits

-----------------------------------------------------------------------------
(* find_repo_by_name and retrieve_referenced_commits.                      *)

\* os.path.isdir(os.path.join(root, repo_name))
os_path_isdir(root, repo_name) == root = RootDir /\ repo_name \in dirs

discover_top_level_repos(root) == IF root = RootDir THEN top_repos ELSE <<>>

\* str.lower, on the letters the names use
LowerChar(c) ==
    CASE c = "A" -> "a" [] c = "B" -> "b" [] c = "X" -> "x" [] OTHER -> c
Lower(t) == [i \in 1..Len(t) |-> LowerChar(t[i])]

\* an Optional[str] that holds a path
Path(p) == [tag |-> "path", val |-> p]

RECURSIVE FindInSubs(_, _)
\* the loop "for sub_path in discover_all_submodules(repo_path)" (326-329)
FindInSubs(subs, repo_name) ==
    IF subs = <<>> THEN None
    ELSE IF Lower(basename(Head(subs))) = Lower(repo_name) THEN Path(Head(subs))
    ELSE FindInSubs(Tail(subs), repo_name)

RECURSIVE FindInRepos(_, _)
\* the loop "for repo_path in discover_top_level_repos(root)" (322-329)
FindInRepos(rs, repo_name) ==
    IF rs = <<>> THEN None
    ELSE LET repo_path == Head(rs)
         IN IF Lower(basename(repo_path)) = Lower(repo_name) THEN Path(repo_path)
            ELSE LET sub == FindInSubs(discover_all_submodules(repo_path), repo_name)
                 IN IF sub # None THEN sub ELSE FindInRepos(Tail(rs), repo_name)

find_repo_by_name(root, repo_name) ==
    IF os_path_isdir(root, repo_name) THEN Path(<<repo_name>>)
    ELSE FindInRepos(discover_top_level_repos(root), repo_name)

RECURSIVE ScanSubs(_, _, _, _)
\* the loop "for sub_path in discover_all_submodules(repo_path)" (378-382);
\* its break leaves this loop only
ScanSubs(subs, sha_prefix, n, res) ==
    IF subs = <<>> THEN res
    ELSE LET commit == get_commit_by_sha(Head(subs), sha_prefix, n)
         IN IF commit # None THEN Append(res, <<basename(Head(subs)), commit>>)
            ELSE ScanSubs(Tail(subs), sha_prefix, n, res)

RECURSIVE ScanRepos(_, _, _, _)
\* the loop "for repo_path in discover_top_level_repos(root)" (372-382)
ScanRepos(rs, sha_prefix, n, res) ==
    IF rs = <<>> THEN res
    ELSE LET repo_path == Head(rs)
             commit == get_commit_by_sha(repo_path, sha_prefix, n)
         IN IF commit # None THEN Append(res, <<basename(repo_path), commit>>)
            ELSE ScanRepos(Tail(rs), sha_prefix, n,
                           ScanSubs(discover_all_submodules(repo_path),
                                    sha_prefix, n, res))

\* the hinted lookup (lines 363-369): the commit found through the hint,
\* or None
HintedCommit(root, sha_prefix, repo_name, n) ==
    IF repo_name = <<>> THEN None
    ELSE LET repo_path == find_repo_by_name(root, repo_name)
         IN IF repo_path = None THEN None
            ELSE get_commit_by_sha(repo_path.val, sha_prefix, n)

\* a loop body that loses the records gathered so far when the reference
\* resolves nowhere
ResolveRefAbandon(root, sha_prefix, repo_name, n, res) ==
    LET commit == HintedCommit(root, sha_prefix, repo_name, n)
    IN IF commit # None THEN Append(res, <<repo_name, commit>>)
       ELSE IF ScanRepos(discover_top_level_repos(root), sha_prefix, n, res) = res
       THEN <<>>
       ELSE ScanRepos(discover_top_level_repos(root), sha_prefix, n, res)

\* a loop body that gives up when a hint was given and failed
ResolveRefHintOnly(root, sha_prefix, repo_name, n, res) ==
    LET commit == HintedCommit(root, sha_prefix, repo_name, n)
    IN IF commit # None THEN Append(res, <<repo_name, commit>>)
       ELSE IF repo_name # <<>> THEN res
       ELSE ScanRepos(discover_top_level_repos(root), sha_prefix, n, res)

\* the body of the loop over all_refs, past the seen_shas test (362-382)
ResolveRef(root, sha_prefix, repo_name, n, res) ==
    LET commit == HintedCommit(root, sha_prefix, repo_name, n)
    IN IF commit # None THEN Append(res, <<repo_name, commit>>)
       ELSE ScanRepos(discover_top_level_repos(root), sha_prefix, n, res)

RECURSIVE ResolveRefs(_, _, _, _, _)
\* the loop "for sha_prefix, repo_name in all_refs" (357-382)
ResolveRefs(refs, root, n, seen_shas, res) ==
    IF refs = <<>> THEN res
    ELSE LET sha_prefix == Head(refs)[1]
             repo_name == Head(refs)[2]
         IN IF sha_prefix \in seen_shas
            THEN ResolveRefs(Tail(refs), root, n, seen_shas, res)
            ELSE ResolveRefs(Tail(refs), root, n, seen_shas \cup {sha_prefix},
                             ResolveRef(root, sha_prefix, repo_name, n, res))

\* metadata_commits + additional_refs resolved under metadata_root
retrieve_referenced_commits(metadata_root, refs, n) ==
    LET root == IF metadata_root # <<>> THEN metadata_root ELSE cwd_parent
    IN ResolveRefs(refs, root, n, {}, <<>>)

-----------------------------------------------------------------------------
(* format_commits_for_prompt.                                              *)

\* the patch of a commit; a commit of get_commits_with_diffs carries none
\* in the model
DiffOf(c) == IF "diff" \in DOMAIN c THEN c.diff ELSE <<>>

RECURSIVE InsertByDate(_, _)
\* sorted is stable: an entry goes after the entries of the same date
InsertByDate(sorted, e) ==
    IF sorted = <<>> THEN <<e>>
    ELSE IF e[2].author_date < Head(sorted)[2].author_date THEN <<e>> \o sorted
    ELSE <<Head(sorted)>> \o InsertByDate(Tail(sorted), e)

RECURSIVE SortByDate(_)
\* sorted(commits, key=lambda x: x[1].author_date)
SortByDate(commits) ==
    IF commits = <<>> THEN <<>>
    ELSE InsertByDate(SortByDate(Take(commits, Len(commits) - 1)), Last(commits))

\* the lines of one commit (lines 452-466); author, subject and body are
\* not modelled
CommitEntry(repo_name, commit) ==
    <<<<"## Commit: ">> \o Take(commit.sha, 8) \o <<" (">> \o repo_name \o <<")">>,
      <<"**Date**: ">> \o Decimal(commit.author_date),
      <<>>>>
      \o (IF DiffOf(commit) # <<>>
          THEN <<<<"**Diff**:">>, <<"FENCEdiff">>, DiffOf(commit), <<"FENCE">>>>
          ELSE <<>>)
      \o <<<<>>, <<"---">>, <<>>>>

RECURSIVE CommitEntries(_)
CommitEntries(sorted_commits) ==
    IF sorted_commits = <<>> THEN <<>>
    ELSE CommitEntry(Head(sorted_commits)[1], Head(sorted_commits)[2])
           \o CommitEntries(Tail(sorted_commits))

format_commits_for_prompt(commits) ==
    IF commits = <<>> THEN <<"No commits found in the specified period.">>
    ELSE JoinLines(<<<<"# Git Commits (">> \o Decimal(Len(commits)) \o <<" total)">>,
                     <<>>>>
                   \o CommitEntries(SortByDate(commits)))

-----------------------------------------------------------------------------
(* The model call and its cost tracker (summarize_activity, section 4.6 of *)
(* the specification): no budget check before the call; after the call the *)
(* tracker accumulates tokens, cost and count; a failure of the backend is *)
(* raised to the caller.                                                   *)

CostTracker ==
    [total_input_tokens |-> 0, total_output_tokens |-> 0, total_cost |-> 0,
     calls |-> 0]

\* total.x += part.x for the four fields (lines 1056-1059, 1084-1087)
AddCost(total, part) ==
    [total_input_tokens |-> total.total_input_tokens + part.total_input_tokens,
     total_output_tokens |-> total.total_output_tokens + part.total_output_tokens,
     total_cost |-> total.total_cost + part.total_cost,
     calls |-> total.calls + part.calls]

\* reply is what the backend does with the request: [ok, text, cost].  The
\* result holds the request as issued, the text returned and the tracker
\* after the call; raised tells that the call failed.
call_llm(system_prompt, user_prompt, cost_tracker, max_cost, reply) ==
    [raised |-> ~reply.ok,
     text |-> IF reply.ok THEN reply.text ELSE <<>>,
     cost_tracker |-> IF reply.ok
                      THEN AddCost(cost_tracker,
                                   [total_input_tokens |-> 1, total_output_tokens |-> 1,
                                    total_cost |-> reply.cost, calls |-> 1])
                      ELSE cost_tracker,
     requests |-> <<[system_prompt |-> system_prompt, user_prompt |-> user_prompt,
                     max_cost |-> max_cost,
                     cost |-> IF reply.ok THEN reply.cost ELSE 0]>>]

\* a stage that made no model call and returns text
NoCall(text, cost_tracker) ==
    [raised |-> FALSE, text |-> text, cost_tracker |-> cost_tracker, requests |-> <<>>]

-----------------------------------------------------------------------------
(* run_research_stage and run_write_stage.                                 *)

RESEARCH_SYSTEM_PROMPT == "RESEARCH_SYSTEM_PROMPT"
WRITE_SYSTEM_PROMPT == "WRITE_SYSTEM_PROMPT"

\* lines 538-544 and 645-651
WithContext(base, global_context, client_context) ==
    <<base>>
      \o (IF global_context # <<>> \/ client_context # <<>>
          THEN <<NL, NL, "---", NL, NL, "Context:", NL>>
                 \o (IF global_context # <<>>
                     THEN <<NL, "Company Background:", NL>> \o global_context \o <<NL>>
                     ELSE <<>>)
                 \o (IF client_context # <<>>
                     THEN <<NL, "Client Context:", NL>> \o client_context \o <<NL>>
                     ELSE <<>>)
          ELSE <<>>)

NoCommitsDocument ==
    <<"# Research: No Commits Found", NL, NL,
      "No commits were found in the specified period.">>

\* a stage 1 without the return of lines 517-521: the prompt is built and
\* sent also when no commit was found
ResearchStageNoEarlyReturn(topic, rs, author, period_str, client, root, max_cost, global_context, client_context, dry_run, reply) ==
    LET commits == gather_commits_for_period(rs)
        user_prompt == <<"# Blog Post Topic", NL>> \o topic
                         \o <<NL, NL, "# Time Period", NL>> \o period_str
                         \o <<NL, NL>> \o format_commits_for_prompt(commits)
                         \o <<NL, NL, "Please analyze these commits and identify changes relevant to the blog post topic.">>
        called == IF dry_run
                  THEN NoCall(<<"*(Dry run - ">> \o Decimal(Len(commits))
                                \o <<" commits would be analyzed)*">>, CostTracker)
                  ELSE call_llm(WithContext(RESEARCH_SYSTEM_PROMPT, global_context,
                                            client_context),
                                user_prompt, CostTracker, max_cost, reply)
    IN IF called.raised THEN called
       ELSE [called EXCEPT !.text = <<"# Research: ">> \o topic \o <<NL, NL>>
                                      \o format_research_metadata(topic, period_str,
                                             client, author, root,
                                             extract_commit_shas_from_research(called.text))
                                      \o <<NL, NL>> \o called.text]

\* lines 510-571; the result is the pair returned, with the requests made
\* and whether the call raised
run_research_stage(topic, rs, author, period_str, client, root, max_cost, global_context, client_context, dry_run, reply) ==
    LET cost_tracker == CostTracker
        commits == gather_commits_for_period(rs)
        commits_text == format_commits_for_prompt(commits)
        user_prompt == <<"# Blog Post Topic", NL>> \o topic
                         \o <<NL, NL, "# Time Period", NL>> \o period_str
                         \o <<NL, NL>> \o commits_text
                         \o <<NL, NL, "Please analyze these commits and identify changes relevant to the blog post topic.">>
        system_prompt == WithContext(RESEARCH_SYSTEM_PROMPT, global_context,
                                     client_context)
        called == IF dry_run
                  THEN NoCall(<<"*(Dry run - ">> \o Decimal(Len(commits))
                                \o <<" commits would be analyzed)*">>, cost_tracker)
                  ELSE call_llm(system_prompt, user_prompt, cost_tracker, max_cost,
                                reply)
        research_content == called.text
        extracted_refs == extract_commit_shas_from_research(research_content)
        metadata_str == format_research_metadata(topic, period_str, client, author,
                                                 root, extracted_refs)
    IN IF commits = <<>> THEN NoCall(NoCommitsDocument, cost_tracker)
       ELSE IF called.raised THEN called
       ELSE [called EXCEPT !.text = <<"# Research: ">> \o topic \o <<NL, NL>>
                                      \o metadata_str \o <<NL, NL>>
                                      \o research_content]

\* the text of a decoded value that is a str; None and "" both read as ""
StrOf(v) == IF v.tag = "str" THEN v.val ELSE <<>>

\* the (sha, repo) pairs of the decoded commits, as texts
PlainRefs(pairs) == [i \in 1..Len(pairs) |-> <<StrOf(pairs[i][1]), StrOf(pairs[i][2])>>]

\* the text written around the research text in the prompt (lines 633-641)
WriteUserPrompt(research_content, commits_text) ==
    <<"# Research Summary", NL, NL>> \o research_content
      \o <<NL, NL, "# Full Diffs for Referenced Commits", NL, NL>> \o commits_text
      \o <<NL, NL, "Please write a blog post based on this research. Use the actual code from the diffs for examples.">>

\* a stage 2 that takes the research text from the caller's memory
ReadResearchFromMemory(research_path) == research_output

\* with open(research_path) as f: f.read()  (lines 603-604)
ReadResearch(research_path) == files[research_path].val

\* lines 607-618: the decoded metadata, or the defaults when there is none
MetadataOrDefault(parsed) ==
    IF parsed = None
    THEN ResearchMetadata(PyStr(<<>>), PyStr(<<>>), PyStr(<<>>), PyStr(<<>>),
                          PyStr(cwd_parent), <<>>)
    ELSE parsed

\* lines 627-631
CommitsTextOf(referenced_commits) ==
    IF referenced_commits # <<>> THEN format_commits_for_prompt(referenced_commits)
    ELSE <<"(No referenced commits could be retrieved)">>

\* lines 621-631: the referenced commits retrieved and formatted
ReferencedText(metadata, additional_refs, n) ==
    CommitsTextOf(
        retrieve_referenced_commits(StrOf(metadata.root),
                                    PlainRefs(metadata.commits) \o additional_refs,
                                    n))

\* whether the loop over the decoded commits (lines 357-366) raises: a
\* repository hint that YAML read as a number is truthy and reaches
\* os.path.join in find_repo_by_name (line 318), which takes only str; a
\* pair whose sha an earlier pair holds is skipped before that
HintRaises(pairs) ==
    \E i \in 1..Len(pairs) :
        /\ pairs[i][2].tag = "int"
        /\ Truthy(pairs[i][2])
        /\ \A j \in 1..(i - 1) : pairs[j][1] # pairs[i][1]

\* a stage that sends its request to the model twice
WriteStageTwoCalls(research_content, metadata, max_cost, n, global_context, client_context, dry_run, reply) ==
    IF HintRaises(metadata.commits)
    THEN [raised |-> TRUE, text |-> <<>>, cost_tracker |-> CostTracker,
          requests |-> <<>>]
    ELSE IF dry_run
    THEN NoCall(<<"*(Dry run - blog post would be generated from research)*">>,
                CostTracker)
    ELSE [raised |-> ~reply.ok,
          text |-> IF reply.ok THEN reply.text ELSE <<>>,
          cost_tracker |-> CostTracker,
          requests |-> [i \in 1..2 |->
                           [system_prompt |-> WithContext(WRITE_SYSTEM_PROMPT,
                                                  global_context, client_context),
                            user_prompt |-> research_content,
                            max_cost |-> max_cost, cost |-> 0]]]

\* lines 620-663, metadata being the decoded metadata or the defaults
WriteStageWith(research_content, metadata, max_cost, n, global_context, client_context, dry_run, reply) ==
    IF HintRaises(metadata.commits)
    THEN [raised |-> TRUE, text |-> <<>>, cost_tracker |-> CostTracker,
          requests |-> <<>>]
    ELSE IF dry_run
    THEN NoCall(<<"*(Dry run - blog post would be generated from research)*">>,
                CostTracker)
    ELSE call_llm(WithContext(WRITE_SYSTEM_PROMPT, global_context, client_context),
                  WriteUserPrompt(
                      research_content,
                      ReferencedText(
                          metadata,
                          extract_commit_shas_from_research(research_content), n)),
                  CostTracker, max_cost, reply)

\* a stage that gives up on a file whose metadata block does not decode
WriteStageOnStrict(research_content, max_cost, n, global_context, client_context, dry_run, reply) ==
    IF SearchBlock(research_content, 1) # None
       /\ parse_research_metadata(research_content) = None
    THEN [raised |-> TRUE, text |-> <<>>, cost_tracker |-> CostTracker,
          requests |-> <<>>]
    ELSE WriteStageWith(research_content,
                        MetadataOrDefault(parse_research_metadata(research_content)),
                        max_cost, n, global_context, client_context, dry_run, reply)

\* lines 606-663, research_content being the text read from the file
WriteStageOn(research_content, max_cost, n, global_context, client_context, dry_run, reply) ==
    WriteStageWith(research_content,
                   MetadataOrDefault(parse_research_metadata(research_content)),
                   max_cost, n, global_context, client_context, dry_run, reply)

\* lines 599-663
run_write_stage(research_path, max_cost, n, global_context, client_context, dry_run, reply) ==
    WriteStageOn(ReadResearch(research_path), max_cost, n, global_context,
                 client_context, dry_run, reply)

-----------------------------------------------------------------------------
(* cmd_research, cmd_write and cmd_full.                                   *)

\* the client the configuration knows
ClientName == <<"c">>

\* client_config.get_client_context(client)
get_client_context(client) ==
    IF client = ClientName THEN config.client_context ELSE <<>>

\* client_config.categorize_repos(all_repos).get(client, [])
categorized_get(all_repos, client) ==
    IF client = ClientName
    THEN SelectSeq(all_repos, LAMBDA r : r \in config.client_repos)
    ELSE <<>>

\* the part cmd_research and cmd_full share (lines 952-1010, 773-832):
\* contexts from the configuration, discovery, the client filter.  No
\* --filter pattern is given.  exit is 1 where the handler returns 1.
Prepare(a) ==
    LET root == a.root
        global_context == IF config.present THEN config.global_context ELSE <<>>
        client_context == IF config.present /\ a.client # <<>>
                          THEN get_client_context(a.client) ELSE <<>>
        all_repos == discover_top_level_repos(root)
        rs == IF a.client # <<>> /\ config.present
              THEN categorized_get(all_repos, a.client) ELSE all_repos
    IN [exit |-> IF all_repos = <<>> \/ rs = <<>> THEN 1 ELSE 0,
        repos |-> rs, global_context |-> global_context,
        client_context |-> client_context]

\* a file and its content
File(text) == [tag |-> "file", val |-> text]

\* the files of the full run (output directory F) and of the two separate
\* invocations (output directory S)
FullResearch == "F/research.md"
FullPost == "F/post.md"
SplitResearch == "S/research.md"
SplitPost == "S/post.md"
FilePaths == {FullResearch, FullPost, SplitResearch, SplitPost}

\* a hand-off that adds the cost of stage 1 to the budget
ToppedUpBudget(max_cost, total) == max_cost + total.total_cost

\* a second stage that is handed the whole budget again
WholeBudget(max_cost, total) == max_cost

\* max_cost=args.max_cost - total_cost.total_cost  (line 1076)
RemainingBudget(max_cost, total) == max_cost - total.total_cost

\* the requests of a stage, tagged with the run and the stage they belong to
Logged(run, stage, requests) ==
    [i \in 1..Len(requests) |->
        [run |-> run, stage |-> stage, system_prompt |-> requests[i].system_prompt,
         user_prompt |-> requests[i].user_prompt, max_cost |-> requests[i].max_cost,
         cost |-> requests[i].cost]]

-----------------------------------------------------------------------------
(* What the variables of a part hold in a specification that leaves the     *)
(* part out.                                                               *)

HarvestIdle == repos = <<>> /\ all_commits = <<>> /\ hpc = "off"
DiffIdle == max_diff_lines = 0 /\ commit_out = None /\ dpc = "off"
ExtractIdle == content = <<>> /\ results = <<>> /\ epc = "off"
CodecIdle == artifact = None /\ meta_text = <<>> /\ decoded = None /\ cpc = "off"
ResolveIdle == all_refs = <<>> /\ meta_root = <<>> /\ referenced = <<>> /\ rpc = "off"
FindIdle ==
    find_root = <<>> /\ find_name = <<>> /\ found = None /\ fpc = "off"
PipeIdle ==
    /\ args = None /\ config = None /\ llm = None /\ files = None
    /\ calls = <<>> /\ research_output = <<>> /\ total_cost = None
    /\ exits = None /\ edits = {} /\ ppc = "off"
WorldIdle ==
    /\ submodules = [p \in AllPaths |-> <<>>]
    /\ history = [p \in AllPaths |-> <<>>]
    /\ objects = [p \in AllPaths |-> {}]
    /\ diff_text = [n \in 0..(NumShas - 1) |-> <<>>]
    /\ dirs = {} /\ top_repos = <<>> /\ cwd_parent = RootDir

-----------------------------------------------------------------------------
(* Harvest specification: every layout, every history, one harvest.        *)

\* the paths a harvest of rs visits
Visited(rs, subs) == Range(rs) \cup UNION {Range(subs[r]) : r \in Range(rs)}

HarvestInit ==
    /\ repos \in DistinctSeqsUpTo(TopLevel, 2)
    /\ submodules \in [AllPaths -> {<<>>, <<SubAx>>, <<SubBy>>}]
    /\ \A p \in AllPaths :
          submodules[p] \in (IF p \in Range(repos)
                             THEN {<<>>, <<SubOf(p)>>} ELSE {<<>>})
    /\ history \in [AllPaths -> DistinctSeqsUpTo(0..(NumShas - 1), 2)]
    /\ \A p \in AllPaths : p \notin Visited(repos, submodules) => history[p] = <<>>
    /\ all_commits = <<>>
    /\ hpc = "call"
    /\ objects = [p \in AllPaths |-> {}]
    /\ diff_text = [n \in 0..(NumShas - 1) |-> <<>>]
    /\ dirs = {} /\ top_repos = <<>> /\ cwd_parent = RootDir
    /\ DiffIdle /\ ExtractIdle /\ CodecIdle /\ ResolveIdle /\ FindIdle /\ PipeIdle

Harvest ==
    /\ hpc = "call"
    /\ all_commits' = gather_commits_for_period(repos)
    /\ hpc' = "done"
    /\ UNCHANGED <<worldVars, repos, diffVars, extractVars, codecVars,
                   resolveVars, findVars,
                   pipeVars>>

HarvestNext == Harvest

SpecHarvest == HarvestInit /\ [][HarvestNext]_vars

-----------------------------------------------------------------------------
(* Truncation specification: one commit in A, every patch text of plus     *)
(* signs and newlines, every limit, one lookup.                            *)

DiffChars == {"+", NL}

DiffInit ==
    /\ submodules = [p \in AllPaths |-> <<>>]
    /\ history = [p \in AllPaths |-> <<>>]
    /\ objects = [p \in AllPaths |-> IF p = RepoA THEN {0} ELSE {}]
    /\ \E t \in SeqsUpTo(DiffChars, MaxDiffLen) :
          diff_text = [n \in 0..(NumShas - 1) |-> IF n = 0 THEN t ELSE <<>>]
    /\ dirs = {<<"A">>} /\ top_repos = <<RepoA>> /\ cwd_parent = RootDir
    /\ max_diff_lines \in 0..MaxN
    /\ commit_out = None
    /\ dpc = "call"
    /\ HarvestIdle /\ ExtractIdle /\ CodecIdle /\ ResolveIdle /\ FindIdle /\ PipeIdle

GetCommit ==
    /\ dpc = "call"
    /\ commit_out' = get_commit_by_sha(RepoA, Take(FullSha(0), 7), max_diff_lines)
    /\ dpc' = "done"
    /\ UNCHANGED <<worldVars, harvestVars, max_diff_lines, extractVars, codecVars,
                   resolveVars, findVars,
                   pipeVars>>

DiffNext == GetCommit

SpecDiff == DiffInit /\ [][DiffNext]_vars

\* the lines of the patch as git printed it, and of the patch as stored
C6_M == Len(SplitLines(diff_text[0]))
C6_Stored == SplitLines(commit_out.diff)

\* C6 (as claimed, for every limit): a patch of M > N lines is stored as its first N lines followed by
\* one line reporting M - N omitted lines; a patch of M <= N lines is
\* stored unchanged.
C6_Truncation ==
    dpc = "done" =>
        IF C6_M > max_diff_lines
        THEN C6_Stored = Take(SplitLines(diff_text[0]), max_diff_lines)
                            \o <<TruncationLine(C6_M - max_diff_lines)>>
        ELSE commit_out.diff = diff_text[0]

\* C6 restricted to limits of at least one line
C6_TruncationPositiveLimit == max_diff_lines >= 1 => C6_Truncation

-----------------------------------------------------------------------------
(* Extraction specification: every text of up to MaxSegs segments, a       *)
(* segment being a backticked run of 6 to 9 hex digits or a piece of the   *)
(* parenthesised name.                                                     *)

Hex9 == <<"a", "b", "c", "1", "2", "3", "4", "5", "6">>

\* the first k digits of Hex9 between backticks
Backticked(k) == <<Tick>> \o SubSeq(Hex9, 1, k) \o <<Tick>>

Segments ==
    {Backticked(6), Backticked(7), Backticked(8), Backticked(9),
     SubSeq(Hex9, 1, 7),
     <<"(">>, <<" ", "(">>, <<")">>, <<"R">>, <<" ", "R", " ">>, <<Tick>>}

RECURSIVE Concat(_)
Concat(segs) == IF segs = <<>> THEN <<>> ELSE Head(segs) \o Concat(Tail(segs))

ExtractInit ==
    /\ \E segs \in SeqsUpTo(Segments, MaxSegs) : content = Concat(segs)
    /\ results = <<>>
    /\ epc = "call"
    /\ WorldIdle /\ HarvestIdle /\ DiffIdle /\ CodecIdle /\ ResolveIdle /\ FindIdle
    /\ PipeIdle

Extract ==
    /\ epc = "call"
    /\ results' = extract_commit_shas_from_research(content)
    /\ epc' = "done"
    /\ UNCHANGED <<worldVars, harvestVars, diffVars, content, codecVars,
                   resolveVars, findVars,
                   pipeVars>>

ExtractNext == Extract

SpecExtract == ExtractInit /\ [][ExtractNext]_vars

\* a backtick, exactly k hex digits and a backtick begin at position i
C7_TokenAt(text, i, k) ==
    /\ i + k + 1 <= Len(text)
    /\ text[i] = Tick /\ text[i + k + 1] = Tick
    /\ \A j \in (i + 1)..(i + k) : text[j] \in HexChars

\* the positions where a backticked token of 7 or 8 hex digits begins
C7_TokenStarts(text) ==
    {i \in 1..Len(text) : C7_TokenAt(text, i, 7) \/ C7_TokenAt(text, i, 8)}

C7_TokenLen(text, i) == IF C7_TokenAt(text, i, 7) THEN 7 ELSE 8

\* the first position >= p that holds no whitespace
C7_AfterSpace(text, p) ==
    CHOOSE q \in p..(Len(text) + 1) :
        /\ \A j \in p..(q - 1) : text[j] \in Whitespace
        /\ (q <= Len(text) => text[q] \notin Whitespace)

\* the closing parenthesis of a parenthesised name opening at q, 0 if none
C7_Close(text, q) ==
    IF q <= Len(text) /\ text[q] = "(" /\ \E c \in (q + 2)..Len(text) : text[c] = ")"
          /\ text[q + 1] # ")"
    THEN CHOOSE c \in (q + 2)..Len(text) :
             text[c] = ")" /\ \A j \in (q + 1)..(c - 1) : text[j] # ")"
    ELSE 0

\* the pair the claim gives for the token that begins at i
C7_Pair(text, i) ==
    LET k == C7_TokenLen(text, i)
        q == C7_AfterSpace(text, i + k + 2)
        c == C7_Close(text, q)
    IN <<SubSeq(text, i + 1, i + k),
         IF c = 0 THEN <<>> ELSE Strip(SubSeq(text, q + 1, c - 1))>>

\* the position after the reference that begins at i, its name included
C7_End(text, i) ==
    LET k == C7_TokenLen(text, i)
        c == C7_Close(text, C7_AfterSpace(text, i + k + 2))
    IN IF c = 0 THEN i + k + 2 ELSE c + 1

RECURSIVE C7_InOrder(_, _)
\* the pairs of the tokens that begin at the positions S, in text order
C7_InOrder(text, S) ==
    IF S = {} THEN <<>>
    ELSE LET i == CHOOSE x \in S : \A y \in S : x <= y
         IN <<C7_Pair(text, i)>> \o C7_InOrder(text, S \ {i})

\* no token begins inside an earlier reference (on its closing backtick or
\* inside its parenthesised name)
C7_NoOverlap(text) ==
    \A i, j \in C7_TokenStarts(text) : i < j => j >= C7_End(text, i)

\* every token has backticks of its own: none opens on the backtick that
\* closes another
C7_OwnBackticks(text) ==
    \A i, j \in C7_TokenStarts(text) : i < j => j > i + C7_TokenLen(text, i) + 1

\* C7 (as claimed): the result is one pair per backticked token of 7 or 8
\* hex digits, in text order, with the stripped parenthesised name that
\* follows it or the empty string; other tokens give no pair.  Tokens that
\* share a backtick are left aside, as the claim may not count them.
C7_OnePairPerToken ==
    (epc = "done" /\ C7_OwnBackticks(content)) =>
        results = C7_InOrder(content, C7_TokenStarts(content))

\* C7 (amended): the same, for the texts in which no token begins inside
\* an earlier reference.
C7_OnePairPerFreeToken ==
    (epc = "done" /\ C7_NoOverlap(content)) =>
        results = C7_InOrder(content, C7_TokenStarts(content))

\* a 7-digit token whose name follows a space and has spaces around it
C7_Witness ==
    /\ epc = "done"
    /\ content = Concat(<<Backticked(7), <<" ", "(">>, <<" ", "R", " ">>, <<")">>>>)
    /\ results = <<<<SubSeq(Hex9, 1, 7), <<"R">>>>>>

-----------------------------------------------------------------------------
(* Codec specification: either an artifact is encoded and the text        *)
(* decoded again, or a free text is decoded.                               *)

Hex7 == SubSeq(Hex9, 1, 7)
Digits7 == <<"1", "2", "3", "4", "5", "6", "7">>

\* the references an artifact may list
RefChoices == {<<Hex7, <<"A">>>>, <<Digits7, <<"A">>>>, <<Hex7, <<"l", "i", "b">>>>}

\* the arguments of format_research_metadata the model draws
Artifacts ==
    [topic : {<<"L", "E", "D">>, <<"L", "E", "D", " ", "2">>},
     period : {<<"2", "0", "2", "5", "-", "0", "9">>, <<"2", "0", "2", "5", "-", "Q", "3">>},
     client : {<<>>, <<"a", "c", "m", "e">>},
     author : {<<"J", "o">>},
     root : {<<"/", "r">>},
     commits : SeqsUpTo(RefChoices, MaxRefs)]

\* the elements of the free texts
TextAtoms == {OpenMarker, MetaWord, CloseMarker, NL, " ", "a", ":"}

\* the lines a block may hold for a key: none, the key without a value
\* (with and without the space after the colon), the key with a value
FieldLines(key, value) ==
    {<<>>, <<<<key, ":">>>>, <<<<key, ":", " ">>>>, <<KeyLine(key, value)>>}

\* the lines a block may hold for the commit list: none, the key alone, an
\* entry with both sub-keys, with one of them, and a short entry followed
\* by a whole one
CommitListLines ==
    {<<>>,
     <<<<"commits", ":">>>>,
     <<<<"commits", ":">>>> \o CommitLines(<<<<Hex7, <<"A">>>>>>),
     <<<<"commits", ":">>, <<" ", " ", "-", " ">> \o KeyLine("sha", Hex7)>>,
     <<<<"commits", ":">>, <<" ", " ", "-", " ">> \o KeyLine("repo", <<"A">>)>>,
     <<<<"commits", ":">>, <<" ", " ", "-", " ">> \o KeyLine("sha", Hex7)>>
         \o CommitLines(<<<<Hex7, <<"l", "i", "b">>>>>>)}

\* research texts with a metadata block that holds some of the keys
PartialBlocks ==
    {<<OpenMarker, " ", MetaWord, NL>>
        \o JoinLines(t \o p \o c \o a \o r \o cs) \o <<NL, CloseMarker>> :
        t \in FieldLines("topic", <<"L", "E", "D">>),
        p \in {<<>>, <<KeyLine("period", <<"Q", "3">>)>>},
        c \in FieldLines("client", <<"a", "c", "m", "e">>),
        a \in {<<>>, <<KeyLine("author", <<"J", "o">>)>>},
        r \in FieldLines("root", <<"/", "r">>),
        cs \in CommitListLines}

CodecInit ==
    /\ \/ /\ artifact \in Artifacts
          /\ meta_text = <<>>
          /\ cpc = "encode"
       \/ /\ artifact = None
          /\ meta_text \in SeqsUpTo(TextAtoms, MaxTextLen) \cup PartialBlocks
          /\ cpc = "decode"
    /\ decoded = None
    /\ WorldIdle /\ HarvestIdle /\ DiffIdle /\ ExtractIdle /\ ResolveIdle /\ FindIdle
    /\ PipeIdle

Encode ==
    /\ cpc = "encode"
    /\ meta_text' = format_research_metadata(artifact.topic, artifact.period,
                        artifact.client, artifact.author, artifact.root,
                        artifact.commits)
    /\ cpc' = "decode"
    /\ UNCHANGED <<worldVars, harvestVars, diffVars, extractVars, artifact, decoded,
                   resolveVars, findVars, pipeVars>>

Decode ==
    /\ cpc = "decode"
    /\ decoded' = parse_research_metadata(meta_text)
    /\ cpc' = "done"
    /\ UNCHANGED <<worldVars, harvestVars, diffVars, extractVars, artifact, meta_text,
                   resolveVars, findVars, pipeVars>>

CodecNext == Encode \/ Decode

SpecCodec == CodecInit /\ [][CodecNext]_vars

RECURSIVE C2_Pairs(_)
\* a commit list as a list of pairs of str
C2_Pairs(commits) ==
    IF commits = <<>> THEN <<>>
    ELSE <<<<PyStr(Head(commits)[1]), PyStr(Head(commits)[2])>>>>
             \o C2_Pairs(Tail(commits))

\* the artifact x as a ResearchMetadata
C2_AsMetadata(x) ==
    ResearchMetadata(PyStr(x.topic), PyStr(x.period), PyStr(x.client),
                     PyStr(x.author), PyStr(x.root), C2_Pairs(x.commits))

\* C2 (as claimed): decoding the encoding of an artifact gives the six
\* fields of the artifact back, the commit list in the same order.
C2_RoundTrip ==
    (cpc = "done" /\ artifact # None) => decoded = C2_AsMetadata(artifact)

\* C2 for the artifacts that have a client and whose id-prefixes are not
\* all decimal digits
C2_RoundTripNamedClient ==
    (cpc = "done" /\ artifact # None /\ artifact.client # <<>>
        /\ \A i \in 1..Len(artifact.commits) : artifact.commits[i][1] # Digits7)
    => decoded = C2_AsMetadata(artifact)

\* there is an opening marker at i: "<!--", white space if any, the word
C8_OpensAt(text, i) ==
    /\ text[i] = OpenMarker
    /\ \E j \in (i + 1)..Len(text) :
          text[j] = MetaWord /\ \A k \in (i + 1)..(j - 1) : text[k] \in Whitespace

\* the text has no opening marker with a closing marker after it
C8_NoBlock(text) ==
    ~\E i, j \in 1..Len(text) : i < j /\ C8_OpensAt(text, i) /\ text[j] = CloseMarker

\* C8: a text without metadata block decodes to None (and the decoder
\* returns: it has no other outcome than a value).
C8_NoBlockIsAbsent ==
    (cpc = "done" /\ C8_NoBlock(meta_text)) => decoded = None

\* a text with an opening marker and content but no closing marker, decoded
C8_Witness ==
    /\ cpc = "done"
    /\ meta_text = <<OpenMarker, MetaWord, NL, "a", ":">>
    /\ C8_NoBlock(meta_text)
    /\ decoded = None

\* the lines of the metadata block of the text decoded
C22_Lines ==
    IF SearchBlock(meta_text, 1) = None THEN <<>>
    ELSE SplitLines(SearchBlock(meta_text, 1).val)

\* the lines of the block that give the key at the top level
C22_KeyLines(key) ==
    {i \in 1..Len(C22_Lines) : C22_Lines[i] # <<>> /\ Head(C22_Lines[i]) = key}

\* the block gives the key with a value
C22_Given(key) == \E i \in C22_KeyLines(key) : Len(C22_Lines[i]) > 3

\* the value the block gives for the key
C22_Value(key) ==
    LET i == CHOOSE x \in C22_KeyLines(key) : Len(C22_Lines[x]) > 3
    IN SubSeq(C22_Lines[i], 4, Len(C22_Lines[i]))

\* the lines of the list entry that begins at line i: the line with the
\* dash and the indented lines that follow it
C22_EntryLines(i) ==
    {i} \cup {j \in (i + 1)..Len(C22_Lines) :
                 \A k \in (i + 1)..j :
                     Len(C22_Lines[k]) >= 5 /\ C22_Lines[k][1] = " "
                        /\ C22_Lines[k][3] = " "}

\* the lines where a list entry begins
C22_EntryStarts ==
    {i \in 1..Len(C22_Lines) :
        Len(C22_Lines[i]) >= 5 /\ C22_Lines[i][1] = " " /\ C22_Lines[i][3] = "-"}

\* the value of a sub-key of the entry that begins at i, None when the
\* entry lacks the sub-key
C22_Sub(i, key) ==
    IF \E j \in C22_EntryLines(i) : C22_Lines[j][5] = key
    THEN LET j == CHOOSE x \in C22_EntryLines(i) : C22_Lines[x][5] = key
         IN PyStr(SubSeq(C22_Lines[j], 8, Len(C22_Lines[j])))
    ELSE None

RECURSIVE C22_Pairs(_)
\* the pairs of the entries that begin at the lines S and have both
\* sub-keys, in the order of the block
C22_Pairs(S) ==
    IF S = {} THEN <<>>
    ELSE LET i == CHOOSE x \in S : \A y \in S : x <= y
         IN (IF C22_Sub(i, "sha") # None /\ C22_Sub(i, "repo") # None
             THEN <<<<C22_Sub(i, "sha"), C22_Sub(i, "repo")>>>>
             ELSE <<>>) \o C22_Pairs(S \ {i})

\* the field the claim gives for a key: its value, the empty string when
\* the key is missing or has no value
C22_Field(key) == IF C22_Given(key) THEN PyStr(C22_Value(key)) ELSE PyStr(<<>>)

\* the field the decoder gives for a key: its value, the empty string when
\* the key is missing, None when the key has no value
C22_FieldOrNone(key) ==
    IF C22_Given(key) THEN PyStr(C22_Value(key))
    ELSE IF C22_KeyLines(key) # {} THEN None
    ELSE PyStr(<<>>)

\* the block holds at least one key
C22_Parses ==
    \E key \in {"topic", "period", "client", "author", "root", "commits"} :
        C22_KeyLines(key) # {}

\* C22: a block that parses but lacks some of the keys topic, period,
\* client, author and root, or gives one without a value, decodes to an
\* artifact in which each such field is the empty string; without a commits
\* key, or with an empty one, the commit list is empty, and the entries that
\* lack the sha or the repo sub-key are left out.
C22_DecodeDefaults ==
    (cpc = "done" /\ C22_Parses) =>
        decoded = ResearchMetadata(C22_Field("topic"), C22_Field("period"),
                                   C22_Field("client"), C22_Field("author"),
                                   C22_Field("root"), C22_Pairs(C22_EntryStarts))

\* the same for the blocks drawn, but a key without a value gives None
C22_DecodeDefaultsNoneForNoValue ==
    (cpc = "done" /\ artifact = None /\ C22_Parses) =>
        decoded = ResearchMetadata(C22_FieldOrNone("topic"), C22_FieldOrNone("period"),
                                   C22_FieldOrNone("client"), C22_FieldOrNone("author"),
                                   C22_FieldOrNone("root"),
                                   C22_Pairs(C22_EntryStarts))

-----------------------------------------------------------------------------
(* Claims about the harvest.                                               *)

RECURSIVE C1_Traversal(_)
\* the order in which a harvest of rs meets the paths: each repository,
\* then its submodules
C1_Traversal(rs) ==
    IF rs = <<>> THEN <<>>
    ELSE <<Head(rs)>> \o submodules[Head(rs)] \o C1_Traversal(Tail(rs))

\* the positions of the traversal whose query returns commit n
C1_Holders(n) ==
    {i \in 1..Len(C1_Traversal(repos)) : n \in Range(history[C1_Traversal(repos)[i]])}

\* the positions of the result that carry commit n
C1_Entries(n) == {i \in 1..Len(all_commits) : all_commits[i][2].sha = FullSha(n)}

C1_Min(S) == CHOOSE i \in S : \A j \in S : i <= j

\* C1: a hash returned by more than one repository or submodule is in the
\* result exactly once, under the basename of the first path of the
\* traversal that returned it.
C1_DedupFirstWins ==
    hpc = "done" =>
        \A n \in 0..(NumShas - 1) :
            Cardinality(C1_Holders(n)) > 1 =>
                /\ Cardinality(C1_Entries(n)) = 1
                /\ \A i \in C1_Entries(n) :
                      all_commits[i][1] =
                          basename(C1_Traversal(repos)[C1_Min(C1_Holders(n))])

\* a harvest done where commit 0 is in the submodule of A and in B, A first
C1_Witness ==
    /\ hpc = "done"
    /\ repos = <<RepoA, RepoB>>
    /\ submodules[RepoA] = <<SubAx>>
    /\ 0 \in Range(history[SubAx]) /\ 0 \in Range(history[RepoB])
    /\ 0 \notin Range(history[RepoA])
    /\ \E i \in 1..Len(all_commits) : all_commits[i] = <<<<"x">>, CommitInfo(0)>>

RECURSIVE C23_Flat(_)
\* what the queries return, path by path in the order of the traversal,
\* each commit under the basename of its path
C23_Flat(paths) ==
    IF paths = <<>> THEN <<>>
    ELSE [i \in 1..Len(history[Head(paths)]) |->
             <<basename(Head(paths)), CommitInfo(history[Head(paths)][i])>>]
           \o C23_Flat(Tail(paths))

\* the entries of a list that no earlier entry repeats in its hash
C23_FirstOnly(es) ==
    LET keep == {i \in 1..Len(es) : \A j \in 1..(i - 1) : es[j][2].sha # es[i][2].sha}
        Nth(k) == CHOOSE i \in keep : Cardinality({j \in keep : j <= i}) = k
    IN [k \in 1..Cardinality(keep) |-> es[Nth(k)]]

\* C23: the harvest returns the commits in encounter order: the
\* repositories in input order, each followed by its submodules, the commits
\* of one query in the order of the query; every commit some query returned
\* is in the result (once, where it was first met).
C23_EncounterOrder ==
    hpc = "done" =>
        /\ all_commits = C23_FirstOnly(C23_Flat(C1_Traversal(repos)))
        /\ \A q \in Visited(repos, submodules) :
              \A n \in Range(history[q]) :
                  \E i \in 1..Len(all_commits) : all_commits[i][2].sha = FullSha(n)

\* A returned commits 1 and 0, its submodule commit 2, and B, asked last,
\* commit 2 and another: the result is 1, 0 under A, then 2 under x
C23_Witness ==
    /\ hpc = "done"
    /\ repos = <<RepoA, RepoB>>
    /\ submodules[RepoA] = <<SubAx>>
    /\ history[RepoA] = <<1, 0>> /\ history[SubAx] = <<2>>
    /\ 2 \in Range(history[RepoB])
    /\ all_commits = <<<<<<"A">>, CommitInfo(1)>>, <<<<"A">>, CommitInfo(0)>>,
                       <<<<"x">>, CommitInfo(2)>>>>

-----------------------------------------------------------------------------
(* Resolution specification: every layout of the two repositories and      *)
(* their submodules, every placement of commit 0, every short reference    *)
(* list, one retrieval.                                                    *)

\* the names a reference may give: none, a repository, a submodule, a
\* repository in another case, a directory that is no repository, nothing
\* that exists
Hints == {<<>>, <<"A">>, <<"B">>, <<"x">>, <<"a">>, <<"d">>, <<"Z">>}

RefInputs ==
    {<<Take(FullSha(0), 7), h>> : h \in Hints}
        \cup {<<Take(FullSha(0), 8), <<>>>>, <<Take(FullSha(1), 7), <<>>>>}

ResolveInit ==
    /\ top_repos \in {<<RepoA, RepoB>>, <<RepoB, RepoA>>, <<RepoA>>, <<RepoB>>}
    /\ dirs = {basename(r) : r \in Range(top_repos)} \cup {<<"d">>}
    /\ submodules \in [AllPaths -> {<<>>, <<SubAx>>, <<SubBy>>}]
    /\ \A p \in AllPaths :
          submodules[p] \in (IF p \in Range(top_repos)
                             THEN {<<>>, <<SubOf(p)>>} ELSE {<<>>})
    /\ objects \in [AllPaths -> SUBSET {0, 1}]
    /\ \A p \in AllPaths :
          /\ p \notin Visited(top_repos, submodules) => objects[p] = {}
          /\ p # RepoB => 1 \notin objects[p]
    /\ history = [p \in AllPaths |-> <<>>]
    /\ diff_text = [n \in 0..(NumShas - 1) |-> <<>>]
    /\ \E rc \in {<<RootDir, OtherRoot>>, <<<<>>, RootDir>>, <<<<>>, OtherRoot>>} :
          meta_root = rc[1] /\ cwd_parent = rc[2]
    /\ all_refs \in SeqsUpTo(RefInputs, MaxRefs)
    /\ referenced = <<>>
    /\ rpc = "call"
    /\ HarvestIdle /\ DiffIdle /\ ExtractIdle /\ CodecIdle /\ FindIdle /\ PipeIdle

Retrieve ==
    /\ rpc = "call"
    /\ referenced' = retrieve_referenced_commits(meta_root, all_refs, 500)
    /\ rpc' = "done"
    /\ UNCHANGED <<worldVars, harvestVars, diffVars, extractVars, codecVars,
                   all_refs, meta_root, findVars, pipeVars>>

ResolveNext == Retrieve

SpecResolve == ResolveInit /\ [][ResolveNext]_vars

\* the root the retrieval searches
C5_Root == IF meta_root # <<>> THEN meta_root ELSE cwd_parent

\* the repositories and submodules the fallback scan visits
C5_Scanned ==
    IF C5_Root = RootDir THEN Visited(top_repos, submodules) ELSE {}

\* the places a name can denote: the directory of that name under the root,
\* and the scanned repositories of that name in any case
C5_Named(h) ==
    (IF C5_Root = RootDir /\ h \in dirs THEN {<<h>>} ELSE {})
        \cup {p \in C5_Scanned : Lower(basename(p)) = Lower(h)}

C5_Holds(p, sha) ==
    p \in DOMAIN objects /\ \E n \in objects[p] : IsPrefix(sha, FullSha(n))

\* the hint is wrong: nothing it can denote holds the commit
C5_WrongHint(sha, h) == h # <<>> /\ \A p \in C5_Named(h) : ~C5_Holds(p, sha)

\* C5: a reference whose repository hint names no repository, or names one
\* that lacks the commit, is still resolved when a scanned repository or
\* submodule holds the commit: the result has a record of that commit.
C5_WrongHintStillResolved ==
    rpc = "done" =>
        \A i \in 1..Len(all_refs) :
            LET sha == all_refs[i][1]
                h == all_refs[i][2]
            IN (C5_WrongHint(sha, h) /\ \E p \in C5_Scanned : C5_Holds(p, sha))
                  => \E k \in 1..Len(referenced) :
                        IsPrefix(sha, referenced[k][2].sha)

\* a hint that names repository A, which lacks the commit, and the commit
\* found in the submodule of B
C5_Witness ==
    /\ rpc = "done"
    /\ top_repos = <<RepoA, RepoB>>
    /\ all_refs = <<<<Take(FullSha(0), 7), <<"A">>>>>>
    /\ C5_WrongHint(Take(FullSha(0), 7), <<"A">>)
    /\ objects[SubBy] = {0}
    /\ Len(referenced) = 1
    /\ referenced[1][1] = <<"y">>
    /\ referenced[1][2].sha = FullSha(0)

C18_OneRecordPerPrefix ==
    rpc = "done" =>
        Len(referenced) <= Cardinality({all_refs[i][1] : i \in 1..Len(all_refs)})

\* the same, for the layouts in which no scanned submodule holds a commit
C18_OneRecordPerPrefixNoSubmoduleHit ==
    (rpc = "done" /\ \A p \in C5_Scanned : p \in TopLevel \/ objects[p] = {}) =>
        Len(referenced) <= Cardinality({all_refs[i][1] : i \in 1..Len(all_refs)})

-----------------------------------------------------------------------------
(* find_repo_by_name on its own: the root, the name, and the repositories, *)
(* submodules and directories under the root are drawn.                    *)

SubAb == <<<<"A">>, <<"b">>>>
SubBa == <<<<"B">>, <<"a">>>>

\* the names asked for
FindNames == {<<"A">>, <<"B">>, <<"a">>, <<"b">>, <<"x">>, <<"X">>, <<"d">>, <<"Z">>}

FindInit ==
    /\ top_repos \in {<<RepoA, RepoB>>, <<RepoB, RepoA>>, <<RepoA>>, <<RepoB>>}
    /\ \E sa \in {<<>>, <<SubAx>>, <<SubAb>>, <<SubAx, SubAb>>},
          sb \in {<<>>, <<SubBy>>, <<SubBa>>, <<<<<<"B">>, <<"x">>>>>>} :
          submodules = [p \in AllPaths |->
                           IF p \notin Range(top_repos) THEN <<>>
                           ELSE IF p = RepoA THEN sa ELSE sb]
    /\ \E extra \in SUBSET {<<"d">>, <<"x">>} :
          dirs = {basename(r) : r \in Range(top_repos)} \cup extra
    /\ history = [p \in AllPaths |-> <<>>]
    /\ objects = [p \in AllPaths |-> {}]
    /\ diff_text = [n \in 0..(NumShas - 1) |-> <<>>]
    /\ cwd_parent = RootDir
    /\ find_root \in {RootDir, OtherRoot}
    /\ find_name \in FindNames
    /\ found = None
    /\ fpc = "call"
    /\ HarvestIdle /\ DiffIdle /\ ExtractIdle /\ CodecIdle /\ ResolveIdle /\ PipeIdle

Find ==
    /\ fpc = "call"
    /\ found' = find_repo_by_name(find_root, find_name)
    /\ fpc' = "done"
    /\ UNCHANGED <<worldVars, harvestVars, diffVars, extractVars, codecVars,
                   resolveVars, find_root, find_name, pipeVars>>

FindNext == Find

SpecFind == FindInit /\ [][FindNext]_vars

\* the paths of a list whose basename is the name, case aside
C16_Matching(paths, name) ==
    SelectSeq(paths, LAMBDA q : Lower(basename(q)) = Lower(name))

RECURSIVE C16_SubsOf(_)
\* the submodules of the repositories of a list, in order
C16_SubsOf(rs) ==
    IF rs = <<>> THEN <<>>
    ELSE discover_all_submodules(Head(rs)) \o C16_SubsOf(Tail(rs))

\* C16: the result of find_repo_by_name is (a) the directory of that name
\* directly under the root when there is one; otherwise (b) the first
\* top-level repository of that name, case aside; otherwise (c) the first
\* submodule of that name, case aside; otherwise nothing.  So a top-level
\* repository of the name wins over a submodule of the name in a repository
\* discovered before it.
C16_SearchOrder ==
    fpc = "done" =>
        LET tops == discover_top_level_repos(find_root)
            top_hits == C16_Matching(tops, find_name)
            sub_hits == C16_Matching(C16_SubsOf(tops), find_name)
        IN found = IF os_path_isdir(find_root, find_name) THEN Path(<<find_name>>)
                   ELSE IF top_hits # <<>> THEN Path(Head(top_hits))
                   ELSE IF sub_hits # <<>> THEN Path(Head(sub_hits))
                   ELSE None

\* the same order, but for names that no submodule of a repository
\* discovered before the first top-level match bears
C16_SearchOrderNoEarlierSubmodule ==
    fpc = "done" =>
        LET tops == discover_top_level_repos(find_root)
            top_hits == C16_Matching(tops, find_name)
            sub_hits == C16_Matching(C16_SubsOf(tops), find_name)
            earlier == IF top_hits = <<>> THEN <<>>
                       ELSE C16_Matching(
                                C16_SubsOf(SelectSeq(tops,
                                    LAMBDA r : \E i, j \in 1..Len(tops) :
                                        /\ tops[i] = r /\ tops[j] = Head(top_hits)
                                        /\ i < j)),
                                find_name)
        IN earlier = <<>> =>
              found = IF os_path_isdir(find_root, find_name) THEN Path(<<find_name>>)
                      ELSE IF top_hits # <<>> THEN Path(Head(top_hits))
                      ELSE IF sub_hits # <<>> THEN Path(Head(sub_hits))
                      ELSE None

RECURSIVE C21_Interleaved(_)
\* the scanned places in the order of the loops: each repository followed
\* by its submodules
C21_Interleaved(rs) ==
    IF rs = <<>> THEN <<>>
    ELSE <<Head(rs)>> \o discover_all_submodules(Head(rs))
           \o C21_Interleaved(Tail(rs))

\* the references that go to the fallback scan and are alone in the list in
\* naming their commit: no hint or a wrong one, and no other reference with
\* a prefix of the same commit
C21_Scanned(i) ==
    LET sha == all_refs[i][1]
        h == all_refs[i][2]
    IN /\ h = <<>> \/ C5_WrongHint(sha, h)
       /\ \A j \in 1..Len(all_refs) :
             j # i => ~(IsPrefix(all_refs[j][1], sha) \/ IsPrefix(sha, all_refs[j][1]))

\* the first record of the result for the prefix comes from the first place
\* of the list of places that holds the commit
C21_FirstFrom(places, sha) ==
    LET holders == SelectSeq(places, LAMBDA q : C5_Holds(q, sha))
        recs == SelectSeq(referenced, LAMBDA r : IsPrefix(sha, r[2].sha))
    IN holders # <<>> => (recs # <<>> /\ Head(recs)[1] = basename(Head(holders)))

\* C21: for a reference that goes to the fallback scan, the record comes
\* from the first place that holds the commit in this order: the top-level
\* repositories in discovery order, then the submodules in discovery order;
\* so a top-level repository wins over a submodule of a repository
\* discovered before it.
C21_TopLevelFirst ==
    rpc = "done" =>
        \A i \in 1..Len(all_refs) :
            C21_Scanned(i) =>
                C21_FirstFrom(
                    (IF C5_Root = RootDir THEN top_repos ELSE <<>>)
                        \o C16_SubsOf(IF C5_Root = RootDir THEN top_repos ELSE <<>>),
                    all_refs[i][1])

\* the order the scan has: each repository, then its submodules, then the
\* next repository
C21_InterleavedFirst ==
    rpc = "done" =>
        \A i \in 1..Len(all_refs) :
            C21_Scanned(i) =>
                C21_FirstFrom(
                    C21_Interleaved(IF C5_Root = RootDir THEN top_repos ELSE <<>>),
                    all_refs[i][1])

-----------------------------------------------------------------------------
(* Pipeline specification: one "full" invocation, then a "research" and a  *)
(* "write" invocation with the same arguments, configuration, repositories *)
(* and backend replies, writing to another directory.  Between the write   *)
(* of a research file and its read, the file may be edited by hand.        *)

MaxBudget == 2
MaxCost == 2

\* the texts the backend returns for the research request: one that cites
\* commit 0 under a repository name that does not exist, one citing nothing,
\* one that cites commit 0 under a repository name made of a digit
ResearchTexts ==
    {<<"s", " ", Tick>> \o Take(FullSha(0), 7) \o <<Tick, " ", "(", "Z", ")">>,
     <<"n", "o">>,
     <<Tick>> \o Take(FullSha(0), 7) \o <<Tick, "(", "2", ")">>}

Replies(texts) ==
    [ok : {TRUE}, text : texts, cost : 0..MaxCost]
        \cup {[ok |-> FALSE, text |-> <<>>, cost |-> 0]}

\* no configuration file; one without contexts for the client filter to
\* find nothing; one with a client context; one with both contexts
Configs ==
    {[present |-> FALSE, global_context |-> <<>>, client_context |-> <<>>,
      client_repos |-> {}],
     [present |-> TRUE, global_context |-> <<>>, client_context |-> <<>>,
      client_repos |-> {}],
     [present |-> TRUE, global_context |-> <<>>, client_context |-> <<"k">>,
      client_repos |-> {RepoA, RepoB}],
     [present |-> TRUE, global_context |-> <<"g">>, client_context |-> <<"k">>,
      client_repos |-> {RepoA, RepoB}]}

\* what a hand may leave in the research file
\* a reference to commit 1, then a metadata block that holds inner
Blocked(inner) ==
    <<Tick>> \o Take(FullSha(1), 7)
      \o <<Tick, NL, OpenMarker, " ", MetaWord, NL>> \o inner \o <<NL, CloseMarker>>

\* blocks that do not decode: YAML that cannot be read, no content, a
\* scalar in place of the mapping
MalformedTexts == {Blocked(<<"@">>), Blocked(<<>>), Blocked(<<"x">>)}

\* the metadata block an earlier run wrote for a text that cites commit 0
\* under a repository name made of a digit
NumberHinted ==
    format_research_metadata(<<"t">>, <<"Q", "3">>, <<>>, <<"J">>, RootDir,
                             <<<<Take(FullSha(0), 7), <<"2">>>>>>)

EditTexts ==
    {<<"e">>, <<Tick>> \o Take(FullSha(1), 7) \o <<Tick>>, NumberHinted}
        \cup MalformedTexts

\* the texts a hand may leave in a research file that holds text: one of
\* the above, or the text with a reference to commit 1 put before it
EditsOf(text) ==
    EditTexts \cup {<<Tick>> \o Take(FullSha(1), 7) \o <<Tick, NL>> \o text}

\* no repository; a repository without commits; two repositories, B with a
\* submodule that shares commit 0 with A
PipeWorlds ==
    {[top |-> <<>>, subs |-> <<>>, hist |-> [p \in AllPaths |-> <<>>]],
     [top |-> <<RepoA>>, subs |-> <<>>, hist |-> [p \in AllPaths |-> <<>>]],
     [top |-> <<RepoA, RepoB>>, subs |-> <<SubBy>>,
      hist |-> [p \in AllPaths |-> IF p = RepoA THEN <<1, 0>>
                                   ELSE IF p = SubBy THEN <<0>> ELSE <<>>]]}

PipeInit ==
    /\ \E w \in PipeWorlds :
          /\ top_repos = w.top
          /\ submodules = [p \in AllPaths |-> IF p = RepoB THEN w.subs ELSE <<>>]
          /\ history = w.hist
          /\ objects = [p \in AllPaths |-> Range(w.hist[p])]
          /\ dirs = {basename(r) : r \in Range(w.top)}
    /\ diff_text = [n \in 0..(NumShas - 1) |-> IF n = 0 THEN <<"+">> ELSE <<>>]
    /\ cwd_parent = RootDir
    /\ args \in [topic : {<<"t">>}, client : {<<>>, ClientName}, author : {<<"J">>},
                 period : {<<"Q", "3">>}, root : {RootDir},
                 max_cost : 0..MaxBudget, dry_run : BOOLEAN,
                 max_diff_lines : {500}]
    /\ config \in Configs
    /\ llm \in [research : Replies(ResearchTexts), write : Replies({<<"p">>})]
    /\ llm.research.ok \/ llm.write.ok
    /\ files = [p \in FilePaths |-> None]
    /\ calls = <<>>
    /\ research_output = <<>>
    /\ total_cost = CostTracker
    /\ exits = [full |-> "-", research |-> "-", write |-> "-"]
    /\ edits = {}
    /\ ppc = "full"
    /\ HarvestIdle /\ DiffIdle /\ ExtractIdle /\ CodecIdle /\ ResolveIdle /\ FindIdle

\* cmd_full to the end of "Save research" (lines 943-1063)
FullStage1 ==
    /\ ppc = "full"
    /\ LET p == Prepare(args)
           stage == run_research_stage(args.topic, p.repos, args.author,
                        args.period, args.client, args.root, args.max_cost,
                        p.global_context, p.client_context, args.dry_run,
                        llm.research)
       IN IF p.exit = 1
          THEN /\ exits' = [exits EXCEPT !.full = "1"]
               /\ ppc' = "research"
               /\ UNCHANGED <<files, calls, research_output, total_cost>>
          ELSE /\ calls' = calls \o Logged("full", "research", stage.requests)
               /\ IF stage.raised
                  THEN /\ exits' = [exits EXCEPT !.full = "raised"]
                       /\ ppc' = "research"
                       /\ UNCHANGED <<files, research_output, total_cost>>
                  ELSE /\ research_output' = stage.text
                       /\ total_cost' = AddCost(CostTracker, stage.cost_tracker)
                       /\ files' = [files EXCEPT ![FullResearch] = File(stage.text)]
                       /\ ppc' = "full_write"
                       /\ UNCHANGED exits
    /\ UNCHANGED <<worldVars, harvestVars, diffVars, extractVars, codecVars,
                   resolveVars, findVars, args, config, llm, edits>>

\* an end of the full run that removes the research file when stage 2
\* fails
FullWrittenCleanup(stage) ==
    /\ calls' = calls \o Logged("full", "write", stage.requests)
    /\ IF stage.raised
       THEN /\ exits' = [exits EXCEPT !.full = "raised"]
            /\ files' = [files EXCEPT ![FullResearch] = None]
            /\ UNCHANGED total_cost
       ELSE /\ total_cost' = AddCost(total_cost, stage.cost_tracker)
            /\ files' = [files EXCEPT ![FullPost] = File(stage.text)]
            /\ exits' = [exits EXCEPT !.full = "0"]

\* lines 1084-1098, stage being what run_write_stage did
FullWritten(stage) ==
    /\ calls' = calls \o Logged("full", "write", stage.requests)
    /\ IF stage.raised
       THEN /\ exits' = [exits EXCEPT !.full = "raised"]
            /\ UNCHANGED <<files, total_cost>>
       ELSE /\ total_cost' = AddCost(total_cost, stage.cost_tracker)
            /\ files' = [files EXCEPT ![FullPost] = File(stage.text)]
            /\ exits' = [exits EXCEPT !.full = "0"]

\* cmd_full from "Stage 2: Write" to its return (lines 1065-1098)
FullStage2 ==
    /\ ppc = "full_write"
    /\ FullWritten(run_write_stage(FullResearch,
                       RemainingBudget(args.max_cost, total_cost),
                       args.max_diff_lines, Prepare(args).global_context,
                       Prepare(args).client_context, args.dry_run, llm.write))
    /\ ppc' = "research"
    /\ UNCHANGED <<worldVars, harvestVars, diffVars, extractVars, codecVars,
                   resolveVars, findVars, args, config, llm, research_output, edits>>

\* a hand edits the research file of the full run between its write and
\* its read
EditFull ==
    /\ ppc = "full_write"
    /\ "full" \notin edits
    /\ \E t \in EditsOf(files[FullResearch].val) :
          files' = [files EXCEPT ![FullResearch] = File(t)]
    /\ edits' = edits \cup {"full"}
    /\ UNCHANGED <<worldVars, harvestVars, diffVars, extractVars, codecVars,
                   resolveVars, findVars, args, config, llm, calls, research_output,
                   total_cost, exits, ppc>>

\* a hand edits the research file between the two separate invocations
EditSplit ==
    /\ ppc = "write"
    /\ "split" \notin edits
    /\ files[SplitResearch] # None
    /\ \E t \in EditsOf(files[SplitResearch].val) :
          files' = [files EXCEPT ![SplitResearch] = File(t)]
    /\ edits' = edits \cup {"split"}
    /\ UNCHANGED <<worldVars, harvestVars, diffVars, extractVars, codecVars,
                   resolveVars, findVars, args, config, llm, calls, research_output,
                   total_cost, exits, ppc>>

\* cmd_research with --output S/research.md (lines 764-877)
Research ==
    /\ ppc = "research"
    /\ LET p == Prepare(args)
           stage == run_research_stage(args.topic, p.repos, args.author,
                        args.period, args.client, args.root, args.max_cost,
                        p.global_context, p.client_context, args.dry_run,
                        llm.research)
       IN IF p.exit = 1
          THEN /\ exits' = [exits EXCEPT !.research = "1"]
               /\ UNCHANGED <<files, calls>>
          ELSE /\ calls' = calls \o Logged("split", "research", stage.requests)
               /\ IF stage.raised
                  THEN /\ exits' = [exits EXCEPT !.research = "raised"]
                       /\ UNCHANGED files
                  ELSE /\ files' = [files EXCEPT ![SplitResearch] = File(stage.text)]
                       /\ exits' = [exits EXCEPT !.research = "0"]
    /\ ppc' = "write"
    /\ UNCHANGED <<worldVars, harvestVars, diffVars, extractVars, codecVars,
                   resolveVars, findVars, args, config, llm, research_output, total_cost,
                   edits>>

\* lines 905-910: the client context cmd_write takes from the metadata
ContextOfMetadata(metadata) ==
    IF config.present /\ metadata # None /\ Truthy(metadata.client)
    THEN get_client_context(StrOf(metadata.client)) ELSE <<>>

\* lines 923-940, stage being what run_write_stage did
SplitWritten(stage) ==
    /\ calls' = calls \o Logged("split", "write", stage.requests)
    /\ IF stage.raised
       THEN /\ exits' = [exits EXCEPT !.write = "raised"]
            /\ UNCHANGED files
       ELSE /\ files' = [files EXCEPT ![SplitPost] = File(stage.text)]
            /\ exits' = [exits EXCEPT !.write = "0"]

\* a missing research file taken for an empty one: an empty post is written
\* and the command succeeds
ResearchNotFoundIgnored ==
    /\ exits' = [exits EXCEPT !.write = "0"]
    /\ files' = [files EXCEPT ![SplitPost] = File(<<>>)]
    /\ UNCHANGED calls

\* lines 891-893: the research file is not there
ResearchNotFound ==
    /\ exits' = [exits EXCEPT !.write = "1"]
    /\ UNCHANGED <<files, calls>>

\* cmd_write on S/research.md (lines 880-940)
Write ==
    /\ ppc = "write"
    /\ IF files[SplitResearch] = None
       THEN ResearchNotFound
       ELSE SplitWritten(
                run_write_stage(SplitResearch, args.max_cost, args.max_diff_lines,
                    IF config.present THEN config.global_context ELSE <<>>,
                    ContextOfMetadata(
                        parse_research_metadata(files[SplitResearch].val)),
                    args.dry_run, llm.write))
    /\ ppc' = "done"
    /\ UNCHANGED <<worldVars, harvestVars, diffVars, extractVars, codecVars,
                   resolveVars, findVars, args, config, llm, research_output, total_cost,
                   edits>>

PipeNext == FullStage1 \/ EditFull \/ FullStage2 \/ Research \/ EditSplit \/ Write

SpecPipe == PipeInit /\ [][PipeNext]_vars

\* the calls of one run, in the order issued
CallsOf(run) == SelectSeq(calls, LAMBDA c : c.run = run)

RECURSIVE SpentBefore(_, _)
\* the cost charged by the calls before the i-th of the sequence
SpentBefore(cs, i) == IF i <= 1 THEN 0 ELSE SpentBefore(cs, i - 1) + cs[i - 1].cost

\* C3: in a full run with budget B, no call is issued once the cumulative
\* cost of the calls already made exceeds B (call k+1 is never issued when
\* the cost first exceeds B after call k).
C3_NoCallPastBudget ==
    \A i \in 1..Len(CallsOf("full")) :
        SpentBefore(CallsOf("full"), i) <= args.max_cost

\* the cost stage 1 of the full run charged
C4_Stage1Cost ==
    LET rs == SelectSeq(CallsOf("full"), LAMBDA c : c.stage = "research")
    IN SpentBefore(rs, Len(rs) + 1)

\* C4: in a full run without --dry-run whose stage 1 wrote the research
\* file at a cost C1 >= B, stage 2 issues no model call and writes the
\* dry-run stub as the post.
C4_StubWhenBudgetSpent ==
    (/\ ppc \notin {"full", "full_write"}
     /\ files[FullResearch] # None
     /\ ~args.dry_run
     /\ C4_Stage1Cost >= args.max_cost)
        => /\ \A i \in 1..Len(CallsOf("full")) : CallsOf("full")[i].stage # "write"
           /\ files[FullPost]
                = File(<<"*(Dry run - blog post would be generated from research)*">>)

\* the research text as the stage-2 prompt frames it
C9_Framed(text) ==
    <<"# Research Summary", NL, NL>> \o text
      \o <<NL, NL, "# Full Diffs for Referenced Commits", NL, NL>>

\* the commits a research text names, by its metadata block and its body
C9_CommitsNamed(text) ==
    LET m == parse_research_metadata(text)
    IN retrieve_referenced_commits(
           IF m = None THEN cwd_parent ELSE StrOf(m.root),
           (IF m = None THEN <<>> ELSE PlainRefs(m.commits))
               \o extract_commit_shas_from_research(text),
           args.max_diff_lines)

\* C9: in a full run the research file is written before stage 2 starts
\* (unedited, it holds the text stage 1 returned), and the research text in
\* the stage-2 prompt, and the commits that prompt carries, are those of the
\* file as it is read, so an edit between the write and the read is what
\* stage 2 uses.
C9_Stage2UsesFile ==
    /\ ppc = "full_write" =>
          /\ files[FullResearch] # None
          /\ "full" \notin edits => files[FullResearch] = File(research_output)
    /\ \A i \in 1..Len(calls) :
          (calls[i].run = "full" /\ calls[i].stage = "write") =>
              /\ files[FullResearch] # None
              /\ IsPrefix(C9_Framed(files[FullResearch].val), calls[i].user_prompt)
              /\ LET named == C9_CommitsNamed(files[FullResearch].val)
                 IN calls[i].user_prompt
                      = WriteUserPrompt(
                            files[FullResearch].val,
                            IF named # <<>> THEN format_commits_for_prompt(named)
                            ELSE <<"(No referenced commits could be retrieved)">>)

\* stage 1 returned a text citing nothing, the file was edited to cite
\* commit 1, and stage 2 asked the model about the edited text and commit 1
C9_Witness ==
    /\ "full" \in edits
    /\ files[FullResearch] # None
    /\ files[FullResearch] # File(research_output)
    /\ \E i \in 1..Len(calls) :
          /\ calls[i].run = "full" /\ calls[i].stage = "write"
          /\ ~IsPrefix(C9_Framed(research_output), calls[i].user_prompt)
          /\ IsPrefix(C9_Framed(<<Tick>> \o Take(FullSha(1), 7) \o <<Tick>>),
                      calls[i].user_prompt)
          /\ \E j \in 1..Len(calls[i].user_prompt) :
                calls[i].user_prompt[j] = "## Commit: "

\* what a call shows the model and what it may spend
C10_Request(c) ==
    [stage |-> c.stage, system_prompt |-> c.system_prompt,
     user_prompt |-> c.user_prompt, max_cost |-> c.max_cost]

\* C10 as stated: without an edit, the full run and the research and write
\* invocations issue the same sequence of calls (system prompt, user
\* prompt, budget) and write the same research and post.
C10_SameCallsAndFiles ==
    (ppc = "done" /\ edits = {}) =>
        /\ Len(CallsOf("full")) = Len(CallsOf("split"))
        /\ \A i \in 1..Len(CallsOf("full")) :
              C10_Request(CallsOf("full")[i]) = C10_Request(CallsOf("split")[i])
        /\ files[FullResearch] = files[SplitResearch]
        /\ files[FullPost] = files[SplitPost]

\* the file has a metadata block that decodes to the client of the command
\* line
C10_DecodesClient(f) ==
    /\ f # None
    /\ parse_research_metadata(f.val) # None
    /\ StrOf(parse_research_metadata(f.val).client) = args.client

\* the file has no metadata block that decodes
C10_NoMetadata(f) == f # None /\ parse_research_metadata(f.val) = None

\* C10, amended: without an edit, the two ways issue the same number of
\* calls, stage by stage, with the same user prompts and the same replies
\* charged, and write the same research and post.  The research call is the
\* same in both.  The write call differs in its budget: B less the cost of
\* the calls before it in the full run, B in the write invocation.  Its
\* system prompt is the same when the research file has a metadata block
\* that decodes to the client of the command line; when no block decodes
\* (stage 1 found no commits), the write invocation's system prompt is the
\* full run's without the client context.
C10_SameButBudgetAndClientContext ==
    (ppc = "done" /\ edits = {}) =>
        LET F == CallsOf("full")
            S == CallsOf("split")
        IN /\ Len(F) = Len(S)
           /\ files[FullResearch] = files[SplitResearch]
           /\ files[FullPost] = files[SplitPost]
           /\ \A i \in 1..Len(F) :
                 /\ F[i].stage = S[i].stage
                 /\ F[i].user_prompt = S[i].user_prompt
                 /\ F[i].cost = S[i].cost
                 /\ S[i].max_cost = args.max_cost
                 /\ F[i].max_cost = args.max_cost - SpentBefore(F, i)
                 /\ F[i].stage = "research" => F[i].system_prompt = S[i].system_prompt
                 /\ (F[i].stage = "write" /\ C10_DecodesClient(files[SplitResearch]))
                       => F[i].system_prompt = S[i].system_prompt
                 /\ (F[i].stage = "write" /\ C10_NoMetadata(files[SplitResearch]))
                       => /\ IsPrefix(S[i].system_prompt, F[i].system_prompt)
                          /\ \A j \in 1..Len(S[i].system_prompt) :
                                S[i].system_prompt[j] # "Client Context:"

\* both ways made their two calls and wrote their posts; the research call
\* cost something, so the write call of the full run had less to spend; in
\* a world without commits the client context reached only the full run
C10_Witness ==
    /\ ppc = "done" /\ edits = {}
    /\ exits = [full |-> "0", research |-> "0", write |-> "0"]
    /\ Len(CallsOf("full")) = 2 /\ Len(CallsOf("split")) = 2
    /\ CallsOf("full")[1].cost > 0
    /\ CallsOf("full")[2].max_cost < CallsOf("split")[2].max_cost
    /\ files[FullPost] = files[SplitPost]
    /\ files[FullPost] # None

\* the client context of the command line reached the write call of the
\* full run only: stage 1 found no commits and wrote no metadata block
C10_WitnessNoBlock ==
    /\ ppc = "done" /\ edits = {}
    /\ Len(CallsOf("full")) = 1 /\ Len(CallsOf("split")) = 1
    /\ CallsOf("full")[1].stage = "write"
    /\ CallsOf("full")[1].system_prompt # CallsOf("split")[1].system_prompt

\* the prompt carries the record of commit n: its heading with the first
\* eight digits of the hash
C11_Carries(prompt, n) ==
    \E j \in 1..Len(prompt) :
        /\ prompt[j] = "## Commit: "
        /\ j + 8 <= Len(prompt)
        /\ SubSeq(prompt, j + 1, j + 8) = Take(FullSha(n), 8)

\* the commits that references of the body of the text name and its
\* metadata block does not, and that exist in a repository under the root
C11_BodyOnly(text) ==
    LET m == MetadataOrDefault(parse_research_metadata(text))
        body == extract_commit_shas_from_research(text)
    IN {n \in 0..(NumShas - 1) :
           /\ \E p \in AllPaths : n \in objects[p] /\ p \in Range(top_repos)
           /\ \E i \in 1..Len(body) :
                 /\ IsPrefix(body[i][1], FullSha(n))
                 /\ \A k \in 1..Len(m.commits) :
                       StrOf(m.commits[k][1]) # body[i][1]}

\* C11: the resolver of stage 2 receives the references of the decoded
\* metadata block and those extracted from the whole document, so when the
\* write invocation read a research file and was to ask the model, a
\* reference that only the body of the file holds and that names an existing
\* commit has its record in the request.
C11_BodyRefYieldsRecord ==
    (ppc = "done" /\ files[SplitResearch] # None /\ ~args.dry_run) =>
        \A n \in C11_BodyOnly(files[SplitResearch].val) :
            \E i \in 1..Len(calls) :
                /\ calls[i].run = "split" /\ calls[i].stage = "write"
                /\ C11_Carries(calls[i].user_prompt, n)

\* the same, for the research files whose metadata block names every
\* repository by text
C11_BodyRefYieldsRecordTextHints ==
    (/\ ppc = "done" /\ files[SplitResearch] # None /\ ~args.dry_run
     /\ ~HintRaises(MetadataOrDefault(
                        parse_research_metadata(files[SplitResearch].val)).commits))
        => \A n \in C11_BodyOnly(files[SplitResearch].val) :
               \E i \in 1..Len(calls) :
                   /\ calls[i].run = "split" /\ calls[i].stage = "write"
                   /\ C11_Carries(calls[i].user_prompt, n)

\* the write invocation read a file whose block holds a reference and
\* whose body holds another, and the request carries the record of the
\* second
C11_Witness ==
    /\ ppc = "done" /\ files[SplitResearch] # None /\ ~args.dry_run
    /\ parse_research_metadata(files[SplitResearch].val) # None
    /\ parse_research_metadata(files[SplitResearch].val).commits # <<>>
    /\ 1 \in C11_BodyOnly(files[SplitResearch].val)
    /\ \E i \in 1..Len(calls) :
          /\ calls[i].run = "split" /\ calls[i].stage = "write"
          /\ C11_Carries(calls[i].user_prompt, 1)

\* C13: the write invocation on a research path that holds no file ends
\* with a non-zero exit code, having issued no model call and written no
\* post.
C13_MissingFileNoWork ==
    (ppc = "done" /\ files[SplitResearch] = None) =>
        /\ exits.write = "1"
        /\ files[SplitPost] = None
        /\ \A i \in 1..Len(calls) :
              ~(calls[i].run = "split" /\ calls[i].stage = "write")

\* the research invocation failed at its call and left no file; the write
\* invocation, whose call would have succeeded, ended with exit code 1
C13_Witness ==
    /\ ppc = "done"
    /\ files[SplitResearch] = None
    /\ exits.research = "raised"
    /\ llm.write.ok /\ ~args.dry_run
    /\ exits.write = "1"
    /\ files[SplitPost] = None

\* the text holds a metadata block that is malformed: its YAML cannot be
\* read, or holds nothing, or is not a mapping
C14_Malformed(text) ==
    /\ SearchBlock(text, 1) # None
    /\ LET data == yaml_safe_load(SearchBlock(text, 1).val)
       IN data = YError \/ ~Truthy(data) \/ data.tag # "map"

\* C14: on a research file whose metadata block is malformed the decode
\* gives nothing, and the write invocation runs to its end on the default
\* artifact: no client context, no listed commits, the references of the
\* body resolved under the parent of the working directory; it writes the
\* post unless the model call itself fails.
C14_MalformedBlockDefaults ==
    (/\ ppc = "done" /\ files[SplitResearch] # None
     /\ C14_Malformed(files[SplitResearch].val))
        => LET text == files[SplitResearch].val
               W == SelectSeq(CallsOf("split"), LAMBDA c : c.stage = "write")
           IN /\ parse_research_metadata(text) = None
              /\ (args.dry_run \/ llm.write.ok) =>
                    exits.write = "0" /\ files[SplitPost] # None
              /\ args.dry_run => W = <<>>
              /\ ~args.dry_run =>
                    /\ Len(W) = 1
                    /\ W[1].system_prompt
                         = WithContext(WRITE_SYSTEM_PROMPT,
                               IF config.present THEN config.global_context ELSE <<>>,
                               <<>>)
                    /\ W[1].user_prompt
                         = WriteUserPrompt(
                               text,
                               CommitsTextOf(
                                   retrieve_referenced_commits(
                                       cwd_parent,
                                       extract_commit_shas_from_research(text),
                                       args.max_diff_lines)))

\* the block of the file held YAML that cannot be read; the write
\* invocation asked the model, with the commit the body cites in the
\* request, and wrote the post
C14_Witness ==
    /\ ppc = "done"
    /\ files[SplitResearch] = File(Blocked(<<"@">>))
    /\ ~args.dry_run
    /\ exits.write = "0"
    /\ files[SplitPost] = File(llm.write.text)
    /\ \E i \in 1..Len(calls) :
          /\ calls[i].run = "split" /\ calls[i].stage = "write"
          /\ C11_Carries(calls[i].user_prompt, 1)

\* the run issued the model call of the stage and the call failed
C15_CallFailed(run, stage) ==
    /\ ~llm[stage].ok
    /\ \E i \in 1..Len(calls) : calls[i].run = run /\ calls[i].stage = stage

\* C15: when the model call of a stage fails, the stage writes no file and
\* the run ends in failure: a failed stage 1 leaves no research file (and
\* the full run no post), a failed stage 2 leaves no post; the research
\* file stage 1 of the full run wrote is still there after a failed stage 2,
\* with the text stage 1 returned or the text a hand has put there since.
C15_FailureLeavesNoArtifact ==
    /\ C15_CallFailed("full", "research") =>
          /\ exits.full = "raised"
          /\ files[FullResearch] = None /\ files[FullPost] = None
    /\ C15_CallFailed("full", "write") =>
          /\ exits.full = "raised"
          /\ files[FullPost] = None
          /\ files[FullResearch] # None
          /\ "full" \notin edits => files[FullResearch] = File(research_output)
          /\ "full" \in edits => files[FullResearch].val \in EditsOf(research_output)
    /\ C15_CallFailed("split", "research") =>
          exits.research = "raised" /\ files[SplitResearch] = None
    /\ C15_CallFailed("split", "write") =>
          /\ exits.write = "raised"
          /\ files[SplitPost] = None
          /\ files[SplitResearch] # None

\* stage 1 of the full run was paid for and wrote the research file, the
\* call of stage 2 failed: no post, the research file as stage 1 wrote it
C15_Witness ==
    /\ C15_CallFailed("full", "write")
    /\ exits.full = "raised"
    /\ Len(CallsOf("full")) = 2
    /\ CallsOf("full")[1].cost > 0
    /\ "full" \notin edits
    /\ files[FullResearch] = File(research_output)
    /\ files[FullPost] = None

\* the text contains the piece
C17_Contains(text, piece) ==
    \E j \in 1..Len(text) : text[j] = piece

\* C17: with --dry-run no model call is issued by any command, the cost
\* trackers stay at zero calls and zero cost, and each stage that is run
\* still returns its content, which is written as its file: the research
\* file holds the dry-run stub (or the document that tells that no commits
\* were found), the post is the dry-run stub.
C17_DryRunStub ==
    args.dry_run =>
        /\ calls = <<>>
        /\ total_cost = CostTracker
        /\ (ppc \notin {"full", "full_write"} /\ Prepare(args).exit = 0) =>
              /\ exits.full = "0"
              /\ files[FullPost]
                   = File(<<"*(Dry run - blog post would be generated from research)*">>)
        /\ (ppc \in {"write", "done"} /\ Prepare(args).exit = 0) =>
              /\ exits.research = "0"
              /\ files[SplitResearch] # None
              /\ "split" \notin edits =>
                    \/ C17_Contains(files[SplitResearch].val, "*(Dry run - ")
                    \/ files[SplitResearch].val = NoCommitsDocument
        /\ (ppc = "done" /\ files[SplitResearch] # None) =>
              /\ exits.write = "0"
              /\ files[SplitPost]
                   = File(<<"*(Dry run - blog post would be generated from research)*">>)

\* the same, for the write stages that read a research file whose metadata
\* block names every repository by text
C17_DryRunStubTextHints ==
    args.dry_run =>
        /\ calls = <<>>
        /\ total_cost = CostTracker
        /\ (/\ ppc \notin {"full", "full_write"} /\ Prepare(args).exit = 0
            /\ ~HintRaises(MetadataOrDefault(
                   parse_research_metadata(files[FullResearch].val)).commits)) =>
              /\ exits.full = "0"
              /\ files[FullPost]
                   = File(<<"*(Dry run - blog post would be generated from research)*">>)
        /\ (ppc \in {"write", "done"} /\ Prepare(args).exit = 0) =>
              /\ exits.research = "0"
              /\ files[SplitResearch] # None
              /\ "split" \notin edits =>
                    \/ C17_Contains(files[SplitResearch].val, "*(Dry run - ")
                    \/ files[SplitResearch].val = NoCommitsDocument
        /\ (/\ ppc = "done" /\ files[SplitResearch] # None
            /\ ~HintRaises(MetadataOrDefault(
                   parse_research_metadata(files[SplitResearch].val)).commits)) =>
              /\ exits.write = "0"
              /\ files[SplitPost]
                   = File(<<"*(Dry run - blog post would be generated from research)*">>)

\* the research files stage 1 wrote and no hand has touched, each with the
\* run that wrote it
C19_Written ==
    {w \in {[run |-> "full", path |-> FullResearch, edit |-> "full"],
            [run |-> "split", path |-> SplitResearch, edit |-> "split"]} :
        files[w.path] # None /\ w.edit \notin edits}

\* the run went through the model call or through the dry-run stub, then
\* through the encoding of the metadata: one research call without
\* --dry-run, the stub in the file with it, and a block in the file from
\* which the decode recovers the five fields of the run
C19_PassedAll(w) ==
    LET m == parse_research_metadata(files[w.path].val)
        rs == SelectSeq(CallsOf(w.run), LAMBDA c : c.stage = "research")
    IN /\ IF args.dry_run
          THEN rs = <<>> /\ C17_Contains(files[w.path].val, "*(Dry run - ")
          ELSE Len(rs) = 1
       /\ m # None
       /\ m.topic = PyStr(args.topic)
       /\ m.period = PyStr(args.period)
       /\ m.client = PyStr(args.client)
       /\ m.author = PyStr(args.author)
       /\ m.root = PyStr(args.root)

\* C19: every run of stage 1 that wrote its research file went through the
\* gathering, the prompt, the model call or the dry-run stub, and the
\* encoding of the metadata, so every research file stage 1 writes holds a
\* metadata block from which the decode recovers the topic, period, client,
\* author and root of the run.
C19_WrittenHasMetadata == \A w \in C19_Written : C19_PassedAll(w)

\* the same, for the runs that found commits and were given a client
C19_WrittenHasMetadataCommitsAndClient ==
    (gather_commits_for_period(Prepare(args).repos) # <<>> /\ args.client # <<>>)
        => \A w \in C19_Written : C19_PassedAll(w)

C24_Places(run, stage) ==
    {i \in 1..Len(calls) : calls[i].run = run /\ calls[i].stage = stage}

\* C24: each stage run issues at most one model call and the full run at
\* most two; the call of stage 2 of the full run comes after the call of
\* stage 1, which has returned, and after the research file was written.
\* (A call is one step of the run that issues it, so no two calls are ever
\* in progress together.)
C24_Sequential ==
    /\ \A run \in {"full", "split"}, stage \in {"research", "write"} :
          Cardinality(C24_Places(run, stage)) <= 1
    /\ Len(CallsOf("full")) <= 2
    /\ \A i \in C24_Places("full", "write") :
          /\ \A j \in C24_Places("full", "research") : j < i /\ llm.research.ok
          /\ files[FullResearch] # None
          /\ research_output # <<>>
    /\ \A i \in C24_Places("split", "write") : files[SplitResearch] # None
    /\ ppc \in {"full", "full_write"} => C24_Places("full", "write") = {}

\* the full run made its two calls, the research call first, and the
\* research file was there when the second was made
C24_Witness ==
    /\ Len(CallsOf("full")) = 2
    /\ CallsOf("full")[1].stage = "research"
    /\ CallsOf("full")[2].stage = "write"
    /\ files[FullResearch] # None
    /\ exits.full = "0"

\* what stage 1 took for the output of the model: the text returned, or the
\* stub of a dry run (C17_DryRunStub tells its text)
C25_ModelOutput ==
    IF args.dry_run
    THEN <<"*(Dry run - ">>
           \o Decimal(Len(gather_commits_for_period(Prepare(args).repos)))
           \o <<" commits would be analyzed)*">>
    ELSE llm.research.text

\* the pairs as a decode that loses nothing gives them
C25_AsDecoded(refs) ==
    [i \in 1..Len(refs) |-> <<PyStr(refs[i][1]), PyStr(refs[i][2])>>]

\* the title, a blank line and the opening of the block begin the text; the
\* close of the block, a blank line and the output of the model end it
C25_Placed(text, output) ==
    /\ IsPrefix(<<"# Research: ">> \o args.topic \o <<NL, NL, OpenMarker, " ", MetaWord, NL>>, text)
    /\ Len(text) >= Len(output) + 3
    /\ SubSeq(text, Len(text) - Len(output) - 2, Len(text)) = <<CloseMarker, NL, NL>> \o output
    /\ \A j \in 1..(Len(text) - Len(output) - 3) : text[j] # CloseMarker

\* the research file holds the references of the output in its block
C25_Encodes(text, output) ==
    LET m == parse_research_metadata(text)
    IN /\ m # None
       /\ m.commits = C25_AsDecoded(extract_commit_shas_from_research(output))

\* C25: in the research file of a run of stage 1 that found commits, the
\* commit list the metadata block encodes is the sequence the extractor
\* returns for the output of the model, pair for pair in the same order,
\* and the block stands directly after the title and before the output.
C25_BlockListsExtracted ==
    gather_commits_for_period(Prepare(args).repos) # <<>> =>
        \A w \in C19_Written :
            /\ C25_Placed(files[w.path].val, C25_ModelOutput)
            /\ C25_Encodes(files[w.path].val, C25_ModelOutput)

\* the same, the references of the output naming their repositories by
\* text that is not a number (or naming none)
C25_BlockListsExtractedTextHints ==
    (/\ gather_commits_for_period(Prepare(args).repos) # <<>>
     /\ ~HintRaises(C25_AsDecoded(extract_commit_shas_from_research(C25_ModelOutput)))
     /\ \A w \in C19_Written :
           ~HintRaises(MetadataOrDefault(parse_research_metadata(files[w.path].val)).commits)) =>
        \A w \in C19_Written :
            /\ C25_Placed(files[w.path].val, C25_ModelOutput)
            /\ C25_Encodes(files[w.path].val, C25_ModelOutput)

\* the placement alone
C25_BlockPlaced ==
    gather_commits_for_period(Prepare(args).repos) # <<>> =>
        \A w \in C19_Written : C25_Placed(files[w.path].val, C25_ModelOutput)

-----------------------------------------------------------------------------
(* The commands from their first line: the topic taken from the standard    *)
(* input, the discovery, the client filter and the --filter patterns, then *)
(* the stages.  args holds, besides the fields above, stdin (what the      *)
(* standard input holds) and filter (the --filter patterns, in the order   *)
(* given).  A topic of "-" stands for the argument "-".                    *)

\* top-level repositories whose names have two characters
TopAb == <<<<"A", "b">>>>
TopBx == <<<<"B", "X">>>>

CommandPaths == AllPaths \cup {TopAb, TopBx}

RECURSIVE fnmatch(_, _)
\* fnmatch.fnmatch(name, pat) for patterns made of "*", "?" and plain
\* characters: "*" takes any run of characters, "?" takes one
fnmatch(name, pat) ==
    IF pat = <<>> THEN name = <<>>
    ELSE IF Head(pat) = "*"
    THEN fnmatch(name, Tail(pat)) \/ (name # <<>> /\ fnmatch(Tail(name), pat))
    ELSE /\ name # <<>>
         /\ Head(pat) = "?" \/ Head(pat) = Head(name)
         /\ fnmatch(Tail(name), Tail(pat))

\* sub in text, for two str
InStr(sub, text) ==
    \E i \in 0..(Len(text) - Len(sub)) : SubSeq(text, i + 1, i + Len(sub)) = sub

\* the condition of lines 819-822 (997-1000)
PatternMatches(repo_name, pattern) ==
    \/ fnmatch(Lower(repo_name), Lower(pattern))
    \/ InStr(Lower(pattern), Lower(repo_name))

RECURSIVE FilterReposNoBreak(_, _)
\* loops that do not leave the inner loop at a match: a repository is
\* appended once for each pattern that matches its name
FilterReposNoBreak(rs, patterns) ==
    IF rs = <<>> THEN <<>>
    ELSE [k \in 1..Cardinality({i \in 1..Len(patterns) :
                                   PatternMatches(basename(Head(rs)), patterns[i])})
             |-> Head(rs)]
           \o FilterReposNoBreak(Tail(rs), patterns)

RECURSIVE FilterRepos(_, _)
\* the loops of lines 815-825 (993-1003): a repository is appended at the
\* first pattern that matches its name, and the inner loop is left
FilterRepos(rs, patterns) ==
    IF rs = <<>> THEN <<>>
    ELSE (IF \E i \in 1..Len(patterns) : PatternMatches(basename(Head(rs)), patterns[i])
          THEN <<Head(rs)>> ELSE <<>>)
           \o FilterRepos(Tail(rs), patterns)

\* a topic check that lets an empty topic from the standard input through
TopicMissingNever(a) == FALSE

\* lines 774-778 (953-957): "-" was given and the standard input, stripped,
\* is empty
TopicMissing(a) == a.topic = <<"-">> /\ Strip(a.stdin) = <<>>

\* lines 773-828 (952-1006): the topic, then what Prepare does, then the
\* --filter patterns.  exit is 1 where the handler returns 1.
Validate(a) ==
    LET p == Prepare(a)
        rs == IF a.filter # <<>> THEN FilterRepos(p.repos, a.filter) ELSE p.repos
    IN [exit |-> IF TopicMissing(a) \/ p.exit = 1 \/ rs = <<>> THEN 1 ELSE 0,
        topic |-> IF a.topic = <<"-">> THEN Strip(a.stdin) ELSE a.topic,
        repos |-> rs, global_context |-> p.global_context,
        client_context |-> p.client_context]

\* worlds for the commands: no repository; three repositories, two of
\* them with commits
CommandWorlds ==
    {[top |-> <<>>, hist |-> [p \in CommandPaths |-> <<>>]],
     [top |-> <<TopAb, RepoB, TopBx>>,
      hist |-> [p \in CommandPaths |-> IF p = TopAb THEN <<1>>
                                       ELSE IF p = TopBx THEN <<0>> ELSE <<>>]],
     [top |-> <<RepoB, TopAb>>, hist |-> [p \in CommandPaths |-> <<>>]]}

\* the --filter lists: none; one pattern that is a substring of two names;
\* a glob and a substring that both take Ab; patterns in the reverse of
\* the order of the repositories; one that takes every name as a glob;
\* one that takes the one-character names; one that takes nothing; the
\* empty pattern
FilterLists ==
    {<<>>,
     <<<<"B">>>>,
     <<<<"a", "*">>, <<"A">>>>,
     <<<<"x">>, <<"a", "?">>>>,
     <<<<"*">>>>,
     <<<<"?">>>>,
     <<<<"c">>, <<"b", "a">>>>,
     <<<<>>>>}

CommandConfigs ==
    {[present |-> FALSE, global_context |-> <<>>, client_context |-> <<>>,
      client_repos |-> {}],
     [present |-> TRUE, global_context |-> <<"g">>, client_context |-> <<"k">>,
      client_repos |-> {}],
     [present |-> TRUE, global_context |-> <<"g">>, client_context |-> <<"k">>,
      client_repos |-> {TopAb, TopBx}]}

CommandInit ==
    /\ \E w \in CommandWorlds :
          /\ top_repos = w.top
          /\ history = w.hist
          /\ objects = [p \in CommandPaths |-> Range(w.hist[p])]
          /\ dirs = {basename(r) : r \in Range(w.top)}
    /\ submodules = [p \in CommandPaths |-> <<>>]
    /\ diff_text = [n \in 0..(NumShas - 1) |-> IF n = 0 THEN <<"+">> ELSE <<>>]
    /\ cwd_parent = RootDir
    /\ \E in \in {[topic |-> <<"t">>, stdin |-> <<>>],
                  [topic |-> <<"-">>, stdin |-> <<>>],
                  [topic |-> <<"-">>, stdin |-> <<" ", NL>>],
                  [topic |-> <<"-">>, stdin |-> <<" ", "t", NL>>]},
          cl \in {<<>>, ClientName}, fl \in FilterLists, dr \in BOOLEAN :
          args = [topic |-> in.topic, stdin |-> in.stdin, client |-> cl,
                  author |-> <<"J">>, period |-> <<"Q", "3">>, root |-> RootDir,
                  max_cost |-> MaxBudget, dry_run |-> dr, max_diff_lines |-> 500,
                  filter |-> fl]
    /\ config \in CommandConfigs
    /\ llm \in [research : Replies({<<Tick>> \o Take(FullSha(0), 7) \o <<Tick>>}),
                write : {[ok |-> TRUE, text |-> <<"p">>, cost |-> 1]}]
    /\ files = [p \in FilePaths |-> None]
    /\ calls = <<>>
    /\ research_output = <<>>
    /\ total_cost = CostTracker
    /\ exits = [full |-> "-", research |-> "-", write |-> "-"]
    /\ edits = {}
    /\ ppc = "command"
    /\ repos = <<>> /\ all_commits = <<>> /\ hpc = "off"
    /\ DiffIdle /\ ExtractIdle /\ CodecIdle /\ ResolveIdle /\ FindIdle

\* the harvest of run_research_stage (line 512), as the harvest variables
Harvested(rs) ==
    /\ repos' = rs
    /\ all_commits' = gather_commits_for_period(rs)
    /\ hpc' = "done"

\* cmd_research from the call of the stage (lines 838-877), v being what
\* the lines before it gave
ResearchRun(v, stage) ==
    /\ Harvested(v.repos)
    /\ calls' = calls \o Logged("split", "research", stage.requests)
    /\ IF stage.raised
       THEN /\ exits' = [exits EXCEPT !.research = "raised"]
            /\ UNCHANGED files
       ELSE /\ files' = [files EXCEPT ![SplitResearch] = File(stage.text)]
            /\ exits' = [exits EXCEPT !.research = "0"]

\* cmd_research with --output S/research.md (lines 764-877)
CmdResearch ==
    /\ ppc = "command"
    /\ IF Validate(args).exit = 1
       THEN /\ exits' = [exits EXCEPT !.research = "1"]
            /\ UNCHANGED <<files, calls, harvestVars>>
       ELSE ResearchRun(Validate(args),
                run_research_stage(Validate(args).topic, Validate(args).repos,
                    args.author, args.period, args.client, args.root,
                    args.max_cost, Validate(args).global_context,
                    Validate(args).client_context, args.dry_run, llm.research))
    /\ ppc' = "research_done"
    /\ UNCHANGED <<worldVars, diffVars, extractVars, codecVars, resolveVars,
                   findVars, args, config, llm, research_output, total_cost, edits>>

\* an end of the full run that reports the tracker of stage 2 alone
FullEndLastOnly(first, second) ==
    /\ calls' = calls \o Logged("full", "research", first.requests)
                      \o Logged("full", "write", second.requests)
    /\ IF second.raised
       THEN /\ exits' = [exits EXCEPT !.full = "raised"]
            /\ files' = [files EXCEPT ![FullResearch] = File(first.text)]
            /\ total_cost' = first.cost_tracker
       ELSE /\ exits' = [exits EXCEPT !.full = "0"]
            /\ files' = [files EXCEPT ![FullResearch] = File(first.text),
                                      ![FullPost] = File(second.text)]
            /\ total_cost' = second.cost_tracker

\* cmd_full from the end of stage 2 (lines 1083-1098), first being what
\* stage 1 returned and second what stage 2 did
FullEnd(first, second) ==
    /\ calls' = calls \o Logged("full", "research", first.requests)
                      \o Logged("full", "write", second.requests)
    /\ IF second.raised
       THEN /\ exits' = [exits EXCEPT !.full = "raised"]
            /\ files' = [files EXCEPT ![FullResearch] = File(first.text)]
            /\ total_cost' = AddCost(CostTracker, first.cost_tracker)
       ELSE /\ exits' = [exits EXCEPT !.full = "0"]
            /\ files' = [files EXCEPT ![FullResearch] = File(first.text),
                                      ![FullPost] = File(second.text)]
            /\ total_cost' = AddCost(AddCost(CostTracker, first.cost_tracker),
                                     second.cost_tracker)

\* cmd_full from the call of stage 1 (lines 1031-1098)
FullRun(v, first) ==
    /\ Harvested(v.repos)
    /\ IF first.raised
       THEN /\ calls' = calls \o Logged("full", "research", first.requests)
            /\ exits' = [exits EXCEPT !.full = "raised"]
            /\ UNCHANGED <<files, research_output, total_cost>>
       ELSE /\ research_output' = first.text
            /\ FullEnd(first,
                   WriteStageOn(first.text,
                       RemainingBudget(args.max_cost,
                           AddCost(CostTracker, first.cost_tracker)),
                       args.max_diff_lines, v.global_context, v.client_context,
                       args.dry_run, llm.write))

\* cmd_full with --output F/ (lines 943-1098)
CmdFull ==
    /\ ppc = "command"
    /\ IF Validate(args).exit = 1
       THEN /\ exits' = [exits EXCEPT !.full = "1"]
            /\ UNCHANGED <<files, calls, research_output, total_cost, harvestVars>>
       ELSE FullRun(Validate(args),
                run_research_stage(Validate(args).topic, Validate(args).repos,
                    args.author, args.period, args.client, args.root,
                    args.max_cost, Validate(args).global_context,
                    Validate(args).client_context, args.dry_run, llm.research))
    /\ ppc' = "full_done"
    /\ UNCHANGED <<worldVars, diffVars, extractVars, codecVars, resolveVars,
                   findVars, args, config, llm, edits>>

CommandNext == CmdResearch \/ CmdFull

SpecCommand == CommandInit /\ [][CommandNext]_vars

\* the exit code of the command that ran
C26_Exit == IF ppc = "research_done" THEN exits.research ELSE exits.full

\* the command ran with --filter patterns and came to them: the topic was
\* there and the discovery and the client filter left repositories
C26_Filtering ==
    /\ ppc # "command"
    /\ args.filter # <<>>
    /\ ~TopicMissing(args)
    /\ Prepare(args).exit = 0

\* some pattern of the command line matches the name of the repository
C26_Wanted(r) ==
    \E i \in 1..Len(args.filter) :
        \/ fnmatch(Lower(basename(r)), Lower(args.filter[i]))
        \/ InStr(Lower(args.filter[i]), Lower(basename(r)))

\* C26: with --filter patterns, cmd_research and cmd_full keep a repository
\* exactly when some pattern matches its basename without regard to case,
\* as a glob or as a substring; the kept repositories are in their order
\* before the filter, each once; when none is kept the command returns 1
\* and harvests nothing.
C26_FilterKeeps ==
    C26_Filtering =>
        IF \E i \in 1..Len(Prepare(args).repos) : C26_Wanted(Prepare(args).repos[i])
        THEN /\ hpc = "done"
             /\ repos = SelectSeq(Prepare(args).repos, C26_Wanted)
             /\ C26_Exit # "1"
        ELSE /\ C26_Exit = "1"
             /\ hpc = "off" /\ repos = <<>> /\ all_commits = <<>>

\* two patterns, the second given first in the order of the repositories,
\* both matching Ab: the run kept Ab once and Bx after it
C26_Witness ==
    /\ C26_Filtering
    /\ args.filter = <<<<"x">>, <<"a", "?">>>>
    /\ Prepare(args).repos = <<TopAb, RepoB, TopBx>>
    /\ repos = <<TopAb, TopBx>>
    /\ hpc = "done"

\* a run in which no pattern matched
C26_WitnessNone ==
    /\ C26_Filtering
    /\ args.filter = <<<<"c">>, <<"b", "a">>>>
    /\ Prepare(args).repos = <<TopAb, RepoB, TopBx>>
    /\ C26_Exit = "1"

\* the repositories the client of the command line selects among those
\* found (all of them without a client or without a configuration)
C28_Selected ==
    IF args.client # <<>> /\ config.present
    THEN SelectSeq(top_repos, LAMBDA r : args.client = ClientName /\ r \in config.client_repos)
    ELSE top_repos

\* a reason to refuse the run: "-" as topic and nothing but blanks on the
\* standard input; no repository under the root; none selected by the
\* client; none matched by the patterns
C28_Refused ==
    \/ args.topic = <<"-">> /\ \A i \in 1..Len(args.stdin) : args.stdin[i] \in {" ", NL}
    \/ top_repos = <<>>
    \/ C28_Selected = <<>>
    \/ args.filter # <<>> /\ \A i \in 1..Len(C28_Selected) : ~C26_Wanted(C28_Selected[i])

\* C28: when the topic read from the standard input is empty, or no
\* repository is found under the root, or the client selects none, or the
\* patterns match none, cmd_research and cmd_full return 1 and have issued
\* no model call, harvested no commit and written no file.
C28_RefusedDoesNothing ==
    (ppc # "command" /\ C28_Refused) =>
        /\ C26_Exit = "1"
        /\ calls = <<>>
        /\ hpc = "off" /\ all_commits = <<>>
        /\ \A f \in FilePaths : files[f] = None
        /\ total_cost = CostTracker

\* cmd_full was given "-" and blanks on the standard input, over
\* repositories with commits and without client or patterns, and returned 1
C28_Witness ==
    /\ ppc = "full_done"
    /\ args.topic = <<"-">> /\ args.stdin = <<" ", NL>>
    /\ args.client = <<>> /\ args.filter = <<>>
    /\ history[TopAb] = <<1>>
    /\ exits.full = "1"
    /\ calls = <<>> /\ hpc = "off"

\* cmd_research returned 1 because the client selects no repository
C28_WitnessClient ==
    /\ ppc = "research_done"
    /\ args.topic = <<"t">> /\ args.filter = <<>>
    /\ args.client = ClientName /\ config.present /\ config.client_repos = {}
    /\ top_repos # <<>>
    /\ exits.research = "1"

\* the runs that are not refused go on to the harvest
C28_OthersHarvest ==
    (ppc # "command" /\ ~C28_Refused) => (hpc = "done" /\ C26_Exit # "1")

\* the tracker a stage of the full run returns when it starts from zero:
\* what its own calls, as logged, charged
C27_StageTracker(stage) ==
    LET cs == SelectSeq(CallsOf("full"), LAMBDA c : c.stage = stage)
    IN [total_input_tokens |-> Len(cs), total_output_tokens |-> Len(cs),
        total_cost |-> SpentBefore(cs, Len(cs) + 1), calls |-> Len(cs)]

\* C27: each stage starts from a tracker of zero tokens, zero cost and zero
\* calls, so that the tracker it returns holds its own calls and nothing
\* of an earlier stage, and the total the full run reports at its end is
\* the sum, field by field, of the trackers of stage 1 and stage 2.
C27_TotalIsSum ==
    (ppc = "full_done" /\ exits.full = "0") =>
        /\ total_cost.total_input_tokens
             = C27_StageTracker("research").total_input_tokens
                 + C27_StageTracker("write").total_input_tokens
        /\ total_cost.total_output_tokens
             = C27_StageTracker("research").total_output_tokens
                 + C27_StageTracker("write").total_output_tokens
        /\ total_cost.total_cost
             = C27_StageTracker("research").total_cost
                 + C27_StageTracker("write").total_cost
        /\ total_cost.calls
             = C27_StageTracker("research").calls + C27_StageTracker("write").calls
        /\ args.dry_run => total_cost = CostTracker

\* a full run whose two stages each made a call that cost something
C27_Witness ==
    /\ ppc = "full_done" /\ exits.full = "0"
    /\ Len(CallsOf("full")) = 2
    /\ CallsOf("full")[1].cost = 2 /\ CallsOf("full")[2].cost = 1
    /\ total_cost = [total_input_tokens |-> 2, total_output_tokens |-> 2,
                     total_cost |-> 3, calls |-> 2]

\* the run came to stage 1 and the harvest found no commit in the period
C29_NoCommits ==
    Prepare(args).exit = 0 /\ gather_commits_for_period(Prepare(args).repos) = <<>>

\* the text is somewhere in the prompt
C29_InPrompt(text, prompt) ==
    \E i \in 0..(Len(prompt) - Len(text)) : SubSeq(prompt, i + 1, i + Len(text)) = text

\* stage 2 of the full run ran on the document: the post of a dry run is
\* the stub; otherwise one call was made whose prompt holds the document,
\* and the post is written unless that call failed
C29_Stage2Ran ==
    IF args.dry_run
    THEN /\ exits.full = "0"
         /\ files[FullPost]
              = File(<<"*(Dry run - blog post would be generated from research)*">>)
    ELSE /\ Len(CallsOf("full")) = 1
         /\ CallsOf("full")[1].stage = "write"
         /\ C29_InPrompt(NoCommitsDocument, CallsOf("full")[1].user_prompt)
         /\ IF llm.write.ok
            THEN exits.full = "0" /\ files[FullPost] = File(llm.write.text)
            ELSE exits.full = "raised" /\ files[FullPost] = None

\* C29: when the harvest returns no commit, stage 1 issues no model call,
\* with --dry-run or without, and returns a tracker at zero with the fixed
\* document that tells so; cmd_research and cmd_full write that document as
\* the research file, and cmd_full then runs stage 2 on that file.
C29_NoCommitsDocumentWritten ==
    C29_NoCommits =>
        /\ \A i \in 1..Len(calls) : calls[i].stage # "research"
        /\ ppc = "full_write" =>
              /\ total_cost = CostTracker
              /\ research_output = NoCommitsDocument
              /\ "full" \notin edits => files[FullResearch] = File(NoCommitsDocument)
        /\ (ppc \notin {"full", "full_write"} /\ "full" \notin edits) =>
              /\ files[FullResearch] = File(NoCommitsDocument)
              /\ C29_Stage2Ran
        /\ ppc \in {"write", "done"} =>
              /\ exits.research = "0"
              /\ "split" \notin edits => files[SplitResearch] = File(NoCommitsDocument)

\* a full run without --dry-run that found no commit, wrote the document
\* and had stage 2 write the post from it
C29_Witness ==
    /\ C29_NoCommits
    /\ ~args.dry_run /\ "full" \notin edits
    /\ ppc = "research"
    /\ files[FullResearch] = File(NoCommitsDocument)
    /\ Len(calls) = 1 /\ calls[1].stage = "write" /\ calls[1].run = "full"
    /\ files[FullPost] = File(<<"p">>)
    /\ exits.full = "0"

====
